---- MODULE Spec2Model ----
(***************************************************************************)
(* ChapterhouseQE: the query handler's state machine (run query, capacity  *)
(* claim pass, assignment replies, instance status changes), the operator  *)
(* runtime of each worker, and the wire codec of the message handler.      *)
(***************************************************************************)
EXTENDS Integers, Sequences, FiniteSets, TLC

(***************************************************************************)
(* Bounds of the model.                                                    *)
(***************************************************************************)
MaxQueries == 1
MaxPayloadLen == 1
MaxForeign == 1
MaxStreamMsgs == 2
MaxPeerMsgs == 3
MaxHostMsgs == 3
MaxFiles == 2
MaxRowGroups == 2
MaxRowsPerGroup == 2
MaxLimit == 3
MaxInjected == 1
MaxConnections == 3

Workers == {1, 2}

(***************************************************************************)
(* Small helpers over sequences.                                           *)
(***************************************************************************)
SeqRange(s) == {s[k] : k \in 1..Len(s)}

RECURSIVE SumSeq(_)
SumSeq(s) == IF s = <<>> THEN 0 ELSE Head(s) + SumSeq(Tail(s))

RECURSIVE Flatten(_)
Flatten(ss) == IF ss = <<>> THEN <<>> ELSE Head(ss) \o Flatten(Tail(ss))

(***************************************************************************)
(* Status of a query and of an operator instance.  terminal() is the       *)
(* source's match: Complete and Error are terminal, everything else is not.*)
(***************************************************************************)
Queued == [t |-> "Queued", e |-> ""]
Running == [t |-> "Running", e |-> ""]
Complete == [t |-> "Complete", e |-> ""]
SentShutdown == [t |-> "SentShutdown", e |-> ""]
Error(e) == [t |-> "Error", e |-> e]

terminal(status) ==
    CASE status.t = "Complete" -> TRUE
      [] status.t = "Error" -> TRUE
      [] OTHER -> FALSE

(***************************************************************************)
(* TotalOperatorCompute and the planner's OperatorCompute.                 *)
(***************************************************************************)
Compute(i, m, c) == [instances |-> i, memory_in_mib |-> m, cpu_in_thousandths |-> c]

any_greater_than(self, c) ==
    IF self.instances > c.instances THEN TRUE
    ELSE IF self.memory_in_mib > c.memory_in_mib THEN TRUE
    ELSE IF self.cpu_in_thousandths > c.cpu_in_thousandths THEN TRUE
    ELSE FALSE

add(self, c) ==
    Compute(self.instances + c.instances,
            self.memory_in_mib + c.memory_in_mib,
            self.cpu_in_thousandths + c.cpu_in_thousandths)

subtract(self, c) ==
    Compute(IF self.instances > c.instances THEN self.instances - c.instances ELSE 0,
            IF self.memory_in_mib > c.memory_in_mib
                THEN self.memory_in_mib - c.memory_in_mib ELSE 0,
            IF self.cpu_in_thousandths > c.cpu_in_thousandths
                THEN self.cpu_in_thousandths - c.cpu_in_thousandths ELSE 0)

subtract_single_operator_compute(self, c) ==
    Compute(IF self.instances # 0 THEN self.instances - 1 ELSE 0,
            IF self.memory_in_mib > c.memory_in_mib
                THEN self.memory_in_mib - c.memory_in_mib ELSE 0,
            IF self.cpu_in_thousandths > c.cpu_in_thousandths
                THEN self.cpu_in_thousandths - c.cpu_in_thousandths ELSE 0)

add_single_operator_compute(self, c) ==
    Compute(c.instances, c.memory_in_mib, self.cpu_in_thousandths + c.cpu_in_thousandths)

any_depleated_never(self) == FALSE

any_depleated(self) ==
    self.instances <= 0 \/ self.memory_in_mib <= 0 \/ self.cpu_in_thousandths <= 0

(***************************************************************************)
(* The physical plans the planner returns.  An operator carries its id,    *)
(* its kind, the exchange a producer writes to, and its declared compute   *)
(* (declared instance count, memory, cpu).                                 *)
(***************************************************************************)
Producer(id, exchange_id, c) ==
    [id |-> id, typ |-> "producer", outbound_exchange_id |-> exchange_id,
     inbound_exchange_ids |-> {}, compute |-> c]

Exchange(id, c) ==
    [id |-> id, typ |-> "exchange", outbound_exchange_id |-> "",
     inbound_exchange_ids |-> {}, compute |-> c]

Sqls == {"select 1", "select 2", "selec"}

PhysicalPlanner_build(sql) ==
    CASE sql = "select 1" ->
            [ok |-> TRUE,
             pipelines |-> << << Producer("P1", "E1", Compute(2, 256, 100)),
                                 Exchange("E1", Compute(1, 256, 100)) >> >>]
      [] sql = "select 2" ->
            [ok |-> TRUE,
             pipelines |-> << << Producer("P1", "E1", Compute(1, 256, 100)),
                                 Exchange("E1", Compute(1, 128, 100)) >> >>]
      [] OTHER -> [ok |-> FALSE, pipelines |-> <<>>]

(***************************************************************************)
(* The compute each worker is configured with.                             *)
(***************************************************************************)
allowed_compute(w) == IF w = 1 THEN Compute(3, 600, 1000) ELSE Compute(2, 512, 200)

\* Option<u128>: <<>> is None, <<id>> is Some(id)
None == <<>>
Some(id) == <<id>>
is_some(opt) == opt # <<>>
unwrap_or_0(opt) == IF is_some(opt) THEN opt[1] ELSE 0

(***************************************************************************)
(* Messages.  Every message has the same four fields; body is the variant's*)
(* payload (a compute, an error text, an operator, an operator id).        *)
(***************************************************************************)
Msg(kind, query_id, op_instance_id, body) ==
    [kind |-> kind, query_id |-> query_id, op_instance_id |-> op_instance_id, body |-> body,
     sent_from_operation_id |-> None]

NoMsg == Msg("none", 0, 0, "")

(***************************************************************************)
(* Pipe: the ids a pipe was configured with are set on the messages that   *)
(* leave it through send.                                                  *)
(***************************************************************************)
Pipe_new == [sent_from_query_id |-> None, sent_from_operation_id |-> None]

set_sent_from_query_id(pipe, id) == [pipe EXCEPT !.sent_from_query_id = Some(id)]

set_sent_from_operation_id(pipe, id) == [pipe EXCEPT !.sent_from_operation_id = Some(id)]

Pipe_send(pipe, msg) ==
    LET m1 == IF is_some(pipe.sent_from_query_id)
              THEN [msg EXCEPT !.sent_from_query_id = pipe.sent_from_query_id]
              ELSE msg
    IN IF is_some(pipe.sent_from_operation_id)
       THEN [m1 EXCEPT !.sent_from_operation_id = pipe.sent_from_operation_id]
       ELSE m1

Pipe_send_all(pipe, msgs) == msgs

\* one send per message
Pipe_send_each(pipe, msgs) == [n \in 1..Len(msgs) |-> Pipe_send(pipe, msgs[n])]

\* QueryHandler::new: operator_id and the pipe to the router
QueryHandler_operator_id == 50

QueryHandler_router_pipe == set_sent_from_operation_id(Pipe_new, QueryHandler_operator_id)


VARIABLES
    queries,        \* QueryHandlerState.queries
    next_id,        \* the next fresh id (Uuid::new_v4)
    handler_up,     \* the query handler loop is running
    to_handler,     \* per worker: messages on their way to the query handler
    to_worker,      \* per worker: messages on their way to the operator runtime
    operator_instances, \* per worker: OperatorHandlerState.operator_instances
    handled,        \* the message the query handler handled in the last step
    sent,           \* the messages the query handler sent in that step
    assigns,        \* per instance id: the workers its Assign messages went to, in order
    foreign,        \* per worker: Assigns received from other workers' query handlers
    failed,         \* ids of the instances whose task ended with an error
    log,            \* the "query finished" entries the query handler has logged
    injected,       \* the number of messages peers have sent with ids of their choice
    cmsg, cbuf, cout, cpc,  \* the codec: message, byte buffer, decoded message, position
    cwire,          \* an inbound connection: the bytes the peer sent that have not arrived
    cfwd,           \* an inbound connection: the messages its reader forwarded
    msgs_read,      \* the number of messages the connection readers have decoded
    connection_rx,  \* the channel from the connection readers to the pool loop
    connection_pipe,    \* the pipe from the pool loop to the router
    pipe_back,      \* the same pipe, from the router to the pool
    router_up,      \* the router loop is running
    external_subscribers,   \* MessageRouterState.external_subscribers
    internal_subscribers,   \* MessageRouterState.internal_subscribers
    inbox,          \* per internal subscriber: the messages it received, in order
    routed,         \* the message the router handled in the last step and the result
    host_pc,        \* a producer host: its position in async_main
    host_n,         \* the number of messages the host has taken from its pipes
    host_handled,   \* the message the host took from its router pipe in the last step
    host_sent,      \* the messages the host sent to the router in that step
    task_inbox,     \* the messages the host forwarded to its task, in order
    disc_pc,        \* peer discovery: its position (start, list, ping, Ok, Err)
    retry_idx,      \* peer discovery: retry_idx of the running _with_retry loop
    exchange_operator_instance_id,  \* IdentifyExchangeRequest's field
    exchange_worker_id,             \* IdentifyExchangeRequest's field
    disc_err,       \* peer discovery: the error it returned
    disc_log,       \* peer discovery: the requests made, their responses and results
    qd_store,       \* the query data handler: the result files in the object store
    qd_req,         \* the GetQueryData request it handled in the last step
    qd_resp,        \* the response it sent to that request
    pool_ct,        \* the inbound pool: its cancellation token is cancelled
    pool_pc,        \* the inbound pool: its position in async_main
    pool_rx,        \* the inbound pool: the messages in the readers' channel (capacity 1)
    readers         \* the inbound pool: the position of each spawned read_msgs task

hvars == <<queries, next_id, handler_up, to_handler, to_worker, operator_instances,
           handled, sent, assigns, foreign, failed, log, injected>>
cvars == <<cmsg, cbuf, cout, cpc, cwire, cfwd>>
rvars == <<msgs_read, connection_rx, connection_pipe, pipe_back, router_up,
           external_subscribers, internal_subscribers, inbox, routed>>
ovars == <<host_pc, host_n, host_handled, host_sent, task_inbox>>
dvars == <<disc_pc, retry_idx, exchange_operator_instance_id, exchange_worker_id,
           disc_err, disc_log>>
gvars == <<qd_store, qd_req, qd_resp>>
pvars == <<pool_ct, pool_pc, pool_rx, readers>>
vars == <<queries, next_id, handler_up, to_handler, to_worker, operator_instances,
          handled, sent, assigns, foreign, failed, log, injected, cmsg, cbuf, cout, cpc, cwire, cfwd,
          msgs_read, connection_rx, connection_pipe, pipe_back, router_up,
          external_subscribers, internal_subscribers, inbox, routed,
          host_pc, host_n, host_handled, host_sent, task_inbox,
          disc_pc, retry_idx, exchange_operator_instance_id, exchange_worker_id,
          disc_err, disc_log, qd_store, qd_req, qd_resp,
          pool_ct, pool_pc, pool_rx, readers>>

MaxIds == 3 * (MaxQueries + 1)

(***************************************************************************)
(* OperatorInstance::new, Query::new, Query::init.                          *)
(***************************************************************************)
OperatorInstance_new(id, op) ==
    [operator |-> op, instances |-> << [id |-> id, status |-> Queued] >>]

RECURSIVE add_operator_instances_from_physical_plan(_, _)
add_operator_instances_from_physical_plan(ops, id) ==
    IF ops = <<>> THEN <<>>
    ELSE <<OperatorInstance_new(id, Head(ops))>>
         \o add_operator_instances_from_physical_plan(Tail(ops), id + 1)

Query_new(id, sql, plan) ==
    [id |-> id, query |-> sql, physical_plan |-> plan, status |-> Queued,
     operator_instances |->
        add_operator_instances_from_physical_plan(Flatten(plan), id + 1)]

(***************************************************************************)
(* Lookups of QueryHandlerState.                                           *)
(***************************************************************************)
QueryIdx(qs, query_id) == {k \in 1..Len(qs) : qs[k].id = query_id}

find_query(qs, query_id) == qs[CHOOSE k \in QueryIdx(qs, query_id) : TRUE]

AllInstances(query) ==
    Flatten([g \in 1..Len(query.operator_instances) |->
        [k \in 1..Len(query.operator_instances[g].instances) |->
            [id |-> query.operator_instances[g].instances[k].id,
             status |-> query.operator_instances[g].instances[k].status,
             operator |-> query.operator_instances[g].operator]]])

HasInstance(query, op_instance_id) ==
    \E k \in 1..Len(AllInstances(query)) : AllInstances(query)[k].id = op_instance_id

find_operator_instance(query, op_instance_id) ==
    AllInstances(query)[CHOOSE k \in 1..Len(AllInstances(query)) :
                            AllInstances(query)[k].id = op_instance_id]

get_operator_instances(query, operator_id) ==
    SelectSeq(AllInstances(query), LAMBDA x : x.operator.id = operator_id)

(***************************************************************************)
(* State updates of QueryHandlerState that the handler calls.              *)
(***************************************************************************)
update_query_status(qs, query_id, status) ==
    [k \in 1..Len(qs) |-> IF qs[k].id = query_id THEN [qs[k] EXCEPT !.status = status]
                          ELSE qs[k]]

update_operator_instance_status(qs, query_id, op_instance_id, status) ==
    [k \in 1..Len(qs) |->
        IF qs[k].id # query_id THEN qs[k]
        ELSE [qs[k] EXCEPT !.operator_instances =
                [g \in 1..Len(@) |->
                    [@[g] EXCEPT !.instances =
                        [n \in 1..Len(@) |->
                            IF @[n].id = op_instance_id
                            THEN [@[n] EXCEPT !.status = status]
                            ELSE @[n]]]]]]

\* the same updates as Results: QueryNotFound for a query_id that is not in the state,
\* OperatorInstanceNotFound for an instance that is not one of the query's
update_query_status_res(qs, query_id, status) ==
    IF QueryIdx(qs, query_id) = {}
    THEN [ok |-> FALSE, err |-> "QueryNotFound", qs |-> qs]
    ELSE [ok |-> TRUE, err |-> "", qs |-> update_query_status(qs, query_id, status)]

update_operator_instance_status_res(qs, query_id, op_instance_id, status) ==
    IF QueryIdx(qs, query_id) = {}
    THEN [ok |-> FALSE, err |-> "QueryNotFound", qs |-> qs]
    ELSE IF ~HasInstance(find_query(qs, query_id), op_instance_id)
    THEN [ok |-> FALSE, err |-> "OperatorInstanceNotFound", qs |-> qs]
    ELSE [ok |-> TRUE, err |-> "",
          qs |-> update_operator_instance_status(qs, query_id, op_instance_id, status)]

operator_instance_is_producer(query, op_instance_id) ==
    find_operator_instance(query, op_instance_id).operator.typ = "producer"


all_operator_instances_complete(query, op_instance_id) ==
    LET op_id == find_operator_instance(query, op_instance_id).operator.id
        ins == get_operator_instances(query, op_id)
    IN \A k \in 1..Len(ins) : ins[k].status = Complete

get_outbound_exchange_id(query, op_instance_id) ==
    find_operator_instance(query, op_instance_id).operator.outbound_exchange_id

\* An exchange's producers: those that write to it and those that read from it.
ProducersOf(query, exchange_id) ==
    SelectSeq(AllInstances(query),
              LAMBDA x : /\ x.operator.typ = "producer"
                         /\ \/ x.operator.outbound_exchange_id = exchange_id
                            \/ exchange_id \in x.operator.inbound_exchange_ids)

get_exchange_ids_without_any_consumers(query) ==
    {x.operator.id : x \in
        {y \in SeqRange(AllInstances(query)) :
            /\ y.operator.typ = "exchange"
            /\ \A k \in 1..Len(ProducersOf(query, y.operator.id)) :
                    terminal(ProducersOf(query, y.operator.id)[k].status)}}

DerivedStatus(query) ==
    LET ins == AllInstances(query)
        errs == SelectSeq(ins, LAMBDA x : x.status.t = "Error")
    IN IF errs # <<>> THEN errs[1].status
       ELSE IF \A k \in 1..Len(ins) : ins[k].status = Complete THEN Complete
       ELSE IF \E k \in 1..Len(ins) : ins[k].status = Running THEN Running
       ELSE Queued

refresh_query_status(qs, query_id) ==
    update_query_status(qs, query_id, DerivedStatus(find_query(qs, query_id)))

(***************************************************************************)
(* The claim pass.                                                         *)
(***************************************************************************)
\* the loop over the instances of one group
RECURSIVE claim_group_instances(_, _, _, _)
claim_group_instances(instances, k, group_compute, compute) ==
    IF k > Len(instances)
    THEN [compute |-> compute, instances |-> instances, result |-> <<>>]
    ELSE IF instances[k].status = Running \/ terminal(instances[k].status)
    THEN claim_group_instances(instances, k + 1, group_compute, compute)
    ELSE IF any_depleated(subtract_single_operator_compute(compute, group_compute))
    THEN claim_group_instances(instances, k + 1, group_compute, compute)
    ELSE LET rest == claim_group_instances(
                        [instances EXCEPT ![k].status = Running], k + 1, group_compute,
                        subtract_single_operator_compute(compute, group_compute))
         IN [rest EXCEPT !.result = <<instances[k].id>> \o @]

\* the loop over the groups of one query
RECURSIVE claim_query_groups(_, _, _)
claim_query_groups(groups, g, compute) ==
    IF g > Len(groups)
    THEN [compute |-> compute, groups |-> groups, result |-> <<>>]
    ELSE IF any_depleated(
                subtract_single_operator_compute(compute, groups[g].operator.compute))
    THEN claim_query_groups(groups, g + 1, compute)
    ELSE LET inner == claim_group_instances(groups[g].instances, 1,
                                            groups[g].operator.compute, compute)
             rest == claim_query_groups(
                        [groups EXCEPT ![g].instances = inner.instances], g + 1,
                        inner.compute)
         IN [rest EXCEPT !.result =
                [n \in 1..Len(inner.result) |->
                    [op_instance_id |-> inner.result[n],
                     operator |-> groups[g].operator]] \o @]

\* the loop over the queries
RECURSIVE claim_queries(_, _, _)
claim_queries(qs, k, compute) ==
    IF k > Len(qs) THEN [queries |-> qs, result |-> <<>>]
    ELSE IF any_depleated(compute) THEN [queries |-> qs, result |-> <<>>]
    ELSE IF terminal(qs[k].status) THEN claim_queries(qs, k + 1, compute)
    ELSE LET inner == claim_query_groups(qs[k].operator_instances, 1, compute)
             rest == claim_queries(
                        [qs EXCEPT ![k].operator_instances = inner.groups], k + 1,
                        inner.compute)
         IN [rest EXCEPT !.result =
                [n \in 1..Len(inner.result) |->
                    [query_id |-> qs[k].id,
                     op_instance_id |-> inner.result[n].op_instance_id,
                     operator |-> inner.result[n].operator]] \o @]

claim_operator_instances_up_to_compute_available(qs, available_compute) ==
    claim_queries(qs, 1, available_compute)

(***************************************************************************)
(* The operator runtime of a worker.                                       *)
(***************************************************************************)
RECURSIVE total_operator_compute_from(_, _)
total_operator_compute_from(ops, total_compute) ==
    IF ops = <<>> THEN total_compute
    ELSE total_operator_compute_from(
            Tail(ops),
            add_single_operator_compute(
                total_compute, [Head(ops).operator.compute EXCEPT !.instances = 1]))

total_operator_compute(ops) == total_operator_compute_from(ops, Compute(0, 0, 0))

\* allowed - currently used, as advertised in a NotificationResponse
RemainingCompute(w) ==
    subtract(allowed_compute(w), total_operator_compute(operator_instances[w]))

\* an Assign is accepted when the operator's declared cost still fits
AssignFits(w, operator) ==
    ~any_greater_than(
        add(total_operator_compute(operator_instances[w]),
            [operator.compute EXCEPT !.instances = 1]),
        allowed_compute(w))

Send(chan, w, msgs) == [chan EXCEPT ![w] = @ \o msgs]
Recv(chan, w) == [chan EXCEPT ![w] = Tail(@)]

Idle == /\ handled' = NoMsg
        /\ sent' = <<>>

\* where a worker hosts a running task of an instance
HostIdx(w, op_instance_id) ==
    {k \in 1..Len(operator_instances[w]) :
        /\ operator_instances[w][k].id = op_instance_id
        /\ operator_instances[w][k].task = "running"}

(***************************************************************************)
(* handle_run_query                                                        *)
(***************************************************************************)
handle_run_query(max_queries) ==
    /\ handler_up
    /\ \E sql \in Sqls :
        LET plan == PhysicalPlanner_build(sql)
            query == Query_new(next_id, sql, plan.pipelines)
        IN /\ handled' = Msg("RunQuery", 0, 0, sql)
           /\ IF ~plan.ok
              THEN /\ sent' = << Pipe_send(QueryHandler_router_pipe,
                                             Msg("RunQueryResp::NotCreated", 0, 0, "")) >>
                   /\ UNCHANGED <<queries, next_id, to_worker>>
              ELSE /\ Len(queries) < max_queries
                   /\ queries' = Append(queries, query)
                   /\ next_id' = next_id + 1 + Len(Flatten(plan.pipelines))
                   /\ sent' = Pipe_send_each(QueryHandler_router_pipe,
                                    << Msg("RunQueryResp::Created", query.id, 0, ""),
                                       Msg("Notification", 0, 0, "") >>)
                   /\ to_worker' = [w \in Workers |->
                                        Append(to_worker[w],
                                               Pipe_send(QueryHandler_router_pipe,
                                                         Msg("Notification", 0, 0, "")))]
    /\ UNCHANGED <<handler_up, to_handler, operator_instances, assigns, foreign, failed>>
    /\ UNCHANGED log
    /\ UNCHANGED injected
    /\ UNCHANGED <<cvars, rvars, ovars, dvars, gvars, pvars>>

(***************************************************************************)
(* handle_operator_instance_response                                       *)
(***************************************************************************)
AssignMsgs(result) ==
    [n \in 1..Len(result) |->
        Msg("Assign", result[n].query_id, result[n].op_instance_id, result[n].operator)]

handle_operator_instance_response(w) ==
    /\ handler_up
    /\ to_handler[w] # <<>>
    /\ Head(to_handler[w]).kind = "NotificationResponse"
    /\ LET msg == Head(to_handler[w])
           claimed == claim_operator_instances_up_to_compute_available(queries, msg.body)
           msgs == Pipe_send_all(QueryHandler_router_pipe, AssignMsgs(claimed.result))
       IN /\ queries' = claimed.queries
          /\ to_worker' = Send(to_worker, w, msgs)
          /\ sent' = msgs
          /\ handled' = msg
          /\ assigns' =
                [i \in DOMAIN assigns |->
                    IF \E n \in 1..Len(msgs) : msgs[n].op_instance_id = i
                    THEN Append(assigns[i], w) ELSE assigns[i]]
    /\ to_handler' = Recv(to_handler, w)
    /\ UNCHANGED <<next_id, handler_up, operator_instances, foreign, failed>>
    /\ UNCHANGED log
    /\ UNCHANGED injected
    /\ UNCHANGED <<cvars, rvars, ovars, dvars, gvars, pvars>>

(***************************************************************************)
(* handle_operator_instance_assignment_responses                           *)
(***************************************************************************)
\* an Assign that reaches the query handler instead of an operator runtime
StrayAssigns ==
    IF queries = <<>> THEN {}
    ELSE {Msg("Assign", queries[1].id, AllInstances(queries[1])[1].id,
              AllInstances(queries[1])[1].operator)}

handle_assign_accepted_always_running(msg) ==
    update_operator_instance_status(
        update_query_status(queries, msg.query_id, Running),
        msg.query_id, msg.op_instance_id, Running)

\* the state the arm leaves: each `?` returns with what was written before it
handle_assign_accepted(msg) ==
    IF QueryIdx(queries, msg.query_id) = {} THEN queries
    ELSE update_operator_instance_status_res(
            IF find_query(queries, msg.query_id).status = Queued
            THEN update_query_status(queries, msg.query_id, Running)
            ELSE queries,
            msg.query_id, msg.op_instance_id, Running).qs

handle_assign_rejected(msg) ==
    update_operator_instance_status_res(
        update_query_status_res(queries, msg.query_id, Error(msg.body)).qs,
        msg.query_id, msg.op_instance_id, Error(msg.body)).qs

handle_operator_instance_assignment_responses(w) ==
    /\ handler_up
    /\ \/ /\ to_handler[w] # <<>>
          /\ Head(to_handler[w]).kind = "AssignAcceptedResponse"
          /\ queries' = handle_assign_accepted(Head(to_handler[w]))
          /\ handled' = Head(to_handler[w])
          /\ to_handler' = Recv(to_handler, w)
          /\ UNCHANGED handler_up
       \/ /\ to_handler[w] # <<>>
          /\ Head(to_handler[w]).kind = "AssignRejectedResponse"
          /\ queries' = handle_assign_rejected(Head(to_handler[w]))
          /\ handled' = Head(to_handler[w])
          /\ to_handler' = Recv(to_handler, w)
          /\ UNCHANGED handler_up
       \/ /\ \E msg \in StrayAssigns : handled' = msg
          /\ handler_up' = FALSE      \* IncorrectMessage ends the handler loop
          /\ UNCHANGED <<queries, to_handler>>
    /\ sent' = <<>>
    /\ UNCHANGED <<next_id, to_worker, operator_instances, assigns, foreign, failed>>
    /\ UNCHANGED log
    /\ UNCHANGED injected
    /\ UNCHANGED <<cvars, rvars, ovars, dvars, gvars, pvars>>

(***************************************************************************)
(* handle_get_query_status                                                 *)
(***************************************************************************)
UnknownQueryId == 99

\* find_query as a Result
find_query_res(qs, query_id) ==
    IF QueryIdx(qs, query_id) = {} THEN [ok |-> FALSE, err |-> "QueryNotFound"]
    ELSE [ok |-> TRUE, query |-> find_query(qs, query_id)]

GetQueryStatusResp_always_queued(qs, query_id) ==
    IF find_query_res(qs, query_id).ok
    THEN Msg("GetQueryStatusResp::Status", query_id, 0, Queued)
    ELSE Msg("GetQueryStatusResp::QueryNotFound", query_id, 0, "")

GetQueryStatusResp(qs, query_id) ==
    IF find_query_res(qs, query_id).ok
    THEN Msg("GetQueryStatusResp::Status", query_id, 0,
             find_query_res(qs, query_id).query.status)
    ELSE Msg("GetQueryStatusResp::QueryNotFound", query_id, 0, "")

\* an instance id that no query holds
UnknownInstanceId == 98

\* the messages a peer can put on a connection to the query handler: the ids are the
\* peer's choice
InjectedMessages ==
    LET query_ids == {queries[k].id : k \in 1..Len(queries)} \cup {UnknownQueryId}
        instance_ids == UNION {{AllInstances(queries[k])[n].id :
                                    n \in 1..Len(AllInstances(queries[k]))} :
                               k \in 1..Len(queries)} \cup {UnknownInstanceId}
    IN UNION {{Msg("AssignAcceptedResponse", q, i, ""),
               Msg("AssignRejectedResponse", q, i, "insufficient capacity"),
               Msg("OperatorInstanceStatusChange", q, i, Complete),
               Msg("OperatorInstanceStatusChange", q, i, Error("task failed"))} :
              <<q, i>> \in query_ids \X instance_ids}

\* router_pipe.recv() yields whatever a connection delivered
peer_sends(w, max_injected) ==
    /\ injected < max_injected
    /\ injected' = injected + 1
    /\ \E msg \in InjectedMessages : to_handler' = Send(to_handler, w, <<msg>>)
    /\ Idle
    /\ UNCHANGED <<queries, next_id, handler_up, to_worker, operator_instances,
                   assigns, foreign, failed, log>>
    /\ UNCHANGED <<cvars, rvars, ovars, dvars, gvars, pvars>>

handle_get_query_status ==
    /\ handler_up
    /\ \E query_id \in {queries[k].id : k \in 1..Len(queries)} \cup {UnknownQueryId} :
        /\ handled' = Msg("GetQueryStatus", query_id, 0, "")
        /\ sent' = << Pipe_send(QueryHandler_router_pipe,
                                GetQueryStatusResp(queries, query_id)) >>
    /\ UNCHANGED <<queries, next_id, handler_up, to_handler, to_worker,
                   operator_instances, assigns, foreign, failed, log>>
    /\ UNCHANGED injected
    /\ UNCHANGED <<cvars, rvars, ovars, dvars, gvars, pvars>>

(***************************************************************************)
(* handle_operator_instance_status_change                                  *)
(***************************************************************************)
\* OperatorStatusChange::Completed to every instance of the outbound exchange
CompletedRequests(query, op_instance_id) ==
    LET ins == get_operator_instances(query, get_outbound_exchange_id(query, op_instance_id))
    IN [n \in 1..Len(ins) |->
            Msg("OperatorStatusChange::Completed", query.id, ins[n].id,
                find_operator_instance(query, op_instance_id).operator.id)]

\* the exchange instances that are sent Shutdown::Immediate
ShutdownTargets(query) ==
    SelectSeq(AllInstances(query),
              LAMBDA x : /\ x.operator.id \in get_exchange_ids_without_any_consumers(query)
                         /\ x.status = Running)

ShutdownRequests(query) ==
    [n \in 1..Len(ShutdownTargets(query)) |->
        Msg("Shutdown::Immediate", query.id, ShutdownTargets(query)[n].id, "")]

RECURSIVE mark_sent_shutdown(_, _, _)
mark_sent_shutdown(qs, query_id, targets) ==
    IF targets = <<>> THEN qs
    ELSE mark_sent_shutdown(
            update_operator_instance_status(qs, query_id, Head(targets).id, SentShutdown),
            query_id, Tail(targets))

\* a message addressed to an operator instance travels to the worker it was assigned to
RECURSIVE SendToInstances(_, _)
SendToInstances(chan, msgs) ==
    IF msgs = <<>> THEN chan
    ELSE LET i == Head(msgs).op_instance_id
         IN SendToInstances(
                IF assigns[i] = <<>> THEN chan
                ELSE Send(chan, assigns[i][Len(assigns[i])], <<Head(msgs)>>),
                Tail(msgs))

notify_exchanges_of_any_producer_change(query, op_instance_id) ==
    operator_instance_is_producer(query, op_instance_id)

\* the condition of "notify the exchanges of the producer status change"
notify_exchanges(query, op_instance_id) ==
    /\ operator_instance_is_producer(query, op_instance_id)
    /\ all_operator_instances_complete(query, op_instance_id)

status_change_sends_after_the_update(reply, update_ok, requests) ==
    IF update_ok THEN reply \o requests ELSE <<>>

\* what the handler sends: the reply leaves before the state is touched, so a failed
\* update returns after the reply and before the requests
status_change_sends(reply, update_ok, requests) ==
    IF update_ok THEN reply \o requests ELSE reply

handle_operator_instance_status_change(w) ==
    /\ handler_up
    /\ to_handler[w] # <<>>
    /\ Head(to_handler[w]).kind = "OperatorInstanceStatusChange"
    /\ LET msg == Head(to_handler[w])
           reply == << Pipe_send(QueryHandler_router_pipe,
                                 Msg("GenericResponse::Ok", msg.query_id,
                                     msg.op_instance_id, "")) >>
           res == update_operator_instance_status_res(
                        queries, msg.query_id, msg.op_instance_id, msg.body)
           updated == res.qs
           query == find_query(updated, msg.query_id)
           notify == notify_exchanges(query, msg.op_instance_id)
           requests == IF notify
                       THEN Pipe_send_each(QueryHandler_router_pipe,
                                CompletedRequests(query, msg.op_instance_id)
                                \o ShutdownRequests(query))
                       ELSE <<>>
           marked == IF notify
                     THEN mark_sent_shutdown(updated, msg.query_id, ShutdownTargets(query))
                     ELSE updated
           query_status == find_query(refresh_query_status(marked, msg.query_id),
                                      msg.query_id).status
       IN /\ IF res.ok
             THEN /\ queries' = refresh_query_status(marked, msg.query_id)
                  /\ log' = IF terminal(query_status)
                            THEN Append(log, [query_id |-> msg.query_id,
                                              status |-> query_status,
                                              message |-> "query finished"])
                            ELSE log
                  /\ sent' = status_change_sends(reply, TRUE, requests)
                  /\ to_worker' = SendToInstances(to_worker, requests)
             ELSE /\ sent' = status_change_sends(reply, FALSE, <<>>)
                  /\ UNCHANGED <<queries, log, to_worker>>
          /\ handled' = msg
    /\ to_handler' = Recv(to_handler, w)
    /\ UNCHANGED <<next_id, handler_up, operator_instances, assigns, foreign, failed>>
    /\ UNCHANGED injected
    /\ UNCHANGED <<cvars, rvars, ovars, dvars, gvars, pvars>>

(***************************************************************************)
(* The operator runtime's message handling and the operator hosts.         *)
(***************************************************************************)
worker_notification(w) ==
    /\ to_worker[w] # <<>>
    /\ Head(to_worker[w]).kind = "Notification"
    /\ to_worker' = Recv(to_worker, w)
    /\ to_handler' = Send(to_handler, w,
                          << Msg("NotificationResponse", 0, 0, RemainingCompute(w)) >>)
    /\ Idle
    /\ UNCHANGED <<queries, next_id, handler_up, operator_instances, assigns, foreign, failed>>
    /\ UNCHANGED log
    /\ UNCHANGED injected
    /\ UNCHANGED <<cvars, rvars, ovars, dvars, gvars, pvars>>

\* query id 0 stands for the queries of the other workers' query handlers: the
\* replies to their Assigns travel to them
ForeignQuery == 0
ForeignOperator == Producer("P1", "E1", Compute(1, 300, 150))

Reply(w, request, msg) ==
    IF request.query_id = ForeignQuery THEN to_handler ELSE Send(to_handler, w, <<msg>>)

\* the runtime's handling of an Assign
assign_operator_instance(w, msg) ==
    IF AssignFits(w, msg.body)
    THEN /\ operator_instances' =
                [operator_instances EXCEPT ![w] =
                    Append(@, [id |-> msg.op_instance_id, query_id |-> msg.query_id,
                               operator |-> msg.body, task |-> "running"])]
         /\ to_handler' = Reply(w, msg,
                Msg("AssignAcceptedResponse", msg.query_id, msg.op_instance_id, ""))
    ELSE /\ UNCHANGED operator_instances
         /\ to_handler' = Reply(w, msg,
                Msg("AssignRejectedResponse", msg.query_id, msg.op_instance_id,
                    "insufficient capacity"))

\* an Assign of another worker's query handler arrives
foreign_assign(w) ==
    /\ foreign[w] < MaxForeign
    /\ foreign' = [foreign EXCEPT ![w] = @ + 1]
    /\ assign_operator_instance(
            w, Msg("Assign", ForeignQuery, 100 + foreign[w], ForeignOperator))
    /\ Idle
    /\ UNCHANGED <<queries, next_id, handler_up, to_worker, assigns, failed>>
    /\ UNCHANGED log
    /\ UNCHANGED injected
    /\ UNCHANGED <<cvars, rvars, ovars, dvars, gvars, pvars>>

\* an Assign of this query handler arrives
worker_assign(w) ==
    /\ to_worker[w] # <<>>
    /\ Head(to_worker[w]).kind = "Assign"
    /\ assign_operator_instance(w, Head(to_worker[w]))
    /\ to_worker' = Recv(to_worker, w)
    /\ Idle
    /\ UNCHANGED <<queries, next_id, handler_up, assigns, foreign, failed>>
    /\ UNCHANGED log
    /\ UNCHANGED injected
    /\ UNCHANGED <<cvars, rvars, ovars, dvars, gvars, pvars>>

\* OperatorStatusChange::Completed reaches the exchange task, which notes the drained
\* producer; nothing of the runtime's state changes
worker_operator_status_change(w) ==
    /\ to_worker[w] # <<>>
    /\ Head(to_worker[w]).kind = "OperatorStatusChange::Completed"
    /\ to_worker' = Recv(to_worker, w)
    /\ Idle
    /\ UNCHANGED <<queries, next_id, handler_up, to_handler, operator_instances,
                   assigns, foreign, failed>>
    /\ UNCHANGED log
    /\ UNCHANGED injected
    /\ UNCHANGED <<cvars, rvars, ovars, dvars, gvars, pvars>>

\* what the runtime reports when an operator host returns: Ok(()) -> Complete,
\* Err(e) -> Error(e)
StatusChangeOf(host, result) ==
    Msg("OperatorInstanceStatusChange", host.query_id, host.id,
        IF result = "Ok" THEN Complete ELSE Error(result))

\* The task's future completes: the spawned wrapper logs an error of the task and
\* signals () either way, so the host leaves its loop and returns Ok(()).
ProducerOperator_async_main(task_outcome) == "Ok"

\* Shutdown::Immediate ends the exchange task of a hosted instance
worker_shutdown(w) ==
    /\ to_worker[w] # <<>>
    /\ Head(to_worker[w]).kind = "Shutdown::Immediate"
    /\ LET msg == Head(to_worker[w])
           idx == HostIdx(w, msg.op_instance_id)
       IN IF idx = {}
          THEN UNCHANGED <<operator_instances, to_handler>>
          ELSE LET k == CHOOSE k \in idx : TRUE
               IN /\ operator_instances' = [operator_instances EXCEPT ![w][k].task = "done"]
                  /\ to_handler' = Send(to_handler, w,
                        << StatusChangeOf(operator_instances[w][k],
                                          ProducerOperator_async_main("Ok")) >>)
    /\ to_worker' = Recv(to_worker, w)
    /\ Idle
    /\ UNCHANGED <<queries, next_id, handler_up, assigns, foreign, failed>>
    /\ UNCHANGED log
    /\ UNCHANGED injected
    /\ UNCHANGED <<cvars, rvars, ovars, dvars, gvars, pvars>>

TaskOutcomes == {"Ok", "Err"}

\* a producer's task ends, with or without an error
task_done(w) ==
    /\ \E k \in 1..Len(operator_instances[w]) : \E outcome \in TaskOutcomes :
        /\ operator_instances[w][k].task = "running"
        /\ operator_instances[w][k].query_id # ForeignQuery
        /\ operator_instances[w][k].operator.typ = "producer"
        /\ operator_instances' = [operator_instances EXCEPT ![w][k].task = "done"]
        /\ failed' = IF outcome = "Err" THEN failed \cup {operator_instances[w][k].id}
                     ELSE failed
        /\ to_handler' = Send(to_handler, w,
                << StatusChangeOf(operator_instances[w][k],
                                  ProducerOperator_async_main(outcome)) >>)
    /\ Idle
    /\ UNCHANGED <<queries, next_id, handler_up, to_worker, assigns, foreign>>
    /\ UNCHANGED log
    /\ UNCHANGED injected
    /\ UNCHANGED <<cvars, rvars, ovars, dvars, gvars, pvars>>

\* the host is cancelled and its task does not close within 30 s
host_timed_out(w) ==
    /\ \E k \in 1..Len(operator_instances[w]) :
        /\ operator_instances[w][k].task = "running"
        /\ operator_instances[w][k].query_id # ForeignQuery
        /\ operator_instances' = [operator_instances EXCEPT ![w][k].task = "done"]
        /\ to_handler' = Send(to_handler, w,
                << StatusChangeOf(operator_instances[w][k],
                                  "timed out waiting for task to close") >>)
    /\ Idle
    /\ UNCHANGED <<queries, next_id, handler_up, to_worker, assigns, foreign, failed>>
    /\ UNCHANGED log
    /\ UNCHANGED injected
    /\ UNCHANGED <<cvars, rvars, ovars, dvars, gvars, pvars>>

(***************************************************************************)
(* The message router: MessageRouterState, MessageRouterHandler, the       *)
(* subscribers' predicates and the channels that feed the router.          *)
(***************************************************************************)
Streams == {1, 2}

self_worker_id == 1         \* MessageRouterHandler.worker_id
PeerWorkerId == 2           \* the worker id a peer identifies with
ClientConnectionId == 8     \* the connection id a client identifies with
ProducerInstanceId == 60    \* the operator instance of a producer host
ProducerQueryId == 61       \* the query of that instance

NoIdentity == [t |-> "none", id |-> 0]
Identify_Worker(id) == [t |-> "Worker", id |-> id]
Identify_Connection(id) == [t |-> "Connection", id |-> id]

\* Message::new: no id is set
Message_new(kind, identify) ==
    [kind |-> kind, identify |-> identify, msg_id |-> <<>>,
     inbound_stream_id |-> None, outbound_stream_id |-> None,
     sent_from_worker_id |-> None, sent_from_query_id |-> None,
     sent_from_operation_id |-> None, sent_from_connection_id |-> None,
     route_to_worker_id |-> None, route_to_operation_id |-> None,
     route_to_connection_id |-> None]

\* the messages a peer sends over a stream
PeerMessages ==
    { Message_new("Identify", Identify_Worker(PeerWorkerId)),
      Message_new("Identify", Identify_Connection(ClientConnectionId)),
      Message_new("RunQuery", NoIdentity),
      [Message_new("RunQuery", NoIdentity)
            EXCEPT !.route_to_operation_id = Some(ProducerInstanceId)],
      [Message_new("RunQuery", NoIdentity) EXCEPT !.route_to_worker_id = Some(PeerWorkerId)],
      [Message_new("Ping::Ping", NoIdentity)
            EXCEPT !.route_to_operation_id = Some(ProducerInstanceId)] }

\* tokio mpsc: a sent message joins the end of the channel
mpsc_send_front(chan, msg) == <<msg>> \o chan
mpsc_send(chan, msg) == Append(chan, msg)

QueryHandlerSubscriber == [typ |-> "query_handler", operator_id |-> QueryHandler_operator_id]

ProducerOperatorSubscriber ==
    [typ |-> "producer", operator_instance_id |-> ProducerInstanceId,
     query_id |-> ProducerQueryId]

SubscriberId(sub) ==
    IF sub.typ = "query_handler" THEN sub.operator_id ELSE sub.operator_instance_id

SubscriberIds == {SubscriberId(QueryHandlerSubscriber), SubscriberId(ProducerOperatorSubscriber)}

QueryHandlerSubscriber_consumes_message(self, msg) ==
    IF msg.kind \in {"RunQuery", "GetQueryStatus", "NotificationResponse",
                     "AssignAcceptedResponse", "AssignRejectedResponse",
                     "ListOperatorInstancesRequest", "OperatorInstanceStatusChange"}
    THEN TRUE
    ELSE IF msg.kind \in {"Notification", "Assign", "ListOperatorInstancesResponse"}
    THEN FALSE
    ELSE IF /\ ~is_some(msg.sent_from_connection_id)
            /\ \/ is_some(msg.route_to_connection_id)
               \/ msg.route_to_operation_id # Some(self.operator_id)
    THEN FALSE
    ELSE msg.kind = "GenericResponse::Ok"

ProducerOperatorSubscriber_consumes_message(self, msg) ==
    IF \/ /\ is_some(msg.route_to_operation_id)
          /\ msg.route_to_operation_id # Some(self.operator_instance_id)
       \/ /\ is_some(msg.sent_from_query_id)
          /\ msg.sent_from_query_id # Some(self.query_id)
    THEN FALSE
    ELSE TRUE

consumes_message(sub, msg) ==
    IF sub.typ = "query_handler" THEN QueryHandlerSubscriber_consumes_message(sub, msg)
    ELSE ProducerOperatorSubscriber_consumes_message(sub, msg)

InboundClientConnection(connection_id, inbound_stream_id) ==
    [typ |-> "InboundClientConnection", id |-> connection_id, stream_id |-> inbound_stream_id]

OutboundWorker(worker_id, outbound_stream_id) ==
    [typ |-> "OutboundWorker", id |-> worker_id, stream_id |-> outbound_stream_id]

add_internal_subscriber(subs, sub) == Append(subs, sub)

add_external_subscriber(subs, sub) ==
    Append(SelectSeq(subs, LAMBDA item : item # sub), sub)

\* Pipe::send of the router's connection pipe: nothing reads the other end, so a send
\* into the full channel of size 1 ends with TimedOutWaitingForMessageToSend
connection_pipe_send(back, msg) ==
    IF Len(back) < 1 THEN [ok |-> TRUE, back |-> mpsc_send(back, msg)]
    ELSE [ok |-> FALSE, back |-> back]

identify_back(route_field, id, inbound_stream_id) ==
    [[Message_new("Identify", Identify_Worker(self_worker_id))
        EXCEPT !.sent_from_worker_id = Some(self_worker_id),
               !.inbound_stream_id = Some(inbound_stream_id)]
        EXCEPT ![route_field] = Some(id)]

\* the result: Ok(true), Ok(false) or Err, the table and the pipe afterwards
identify_external_subscriber(msg) ==
    LET unchanged(res) ==
            [res |-> res, external_subscribers |-> external_subscribers,
             pipe_back |-> pipe_back]
    IN IF msg.identify.t = "Worker"
       THEN IF is_some(msg.inbound_stream_id)
            THEN LET snd == connection_pipe_send(pipe_back,
                                identify_back("route_to_worker_id", msg.identify.id,
                                              msg.inbound_stream_id[1]))
                 IN IF snd.ok
                    THEN [res |-> "Ok(true)", external_subscribers |-> external_subscribers,
                          pipe_back |-> snd.back]
                    ELSE unchanged("Err")
            ELSE IF is_some(msg.outbound_stream_id)
            THEN [res |-> "Ok(true)",
                  external_subscribers |->
                      add_external_subscriber(
                          external_subscribers,
                          OutboundWorker(msg.identify.id, msg.outbound_stream_id[1])),
                  pipe_back |-> pipe_back]
            ELSE unchanged("Ok(false)")
       ELSE IF is_some(msg.inbound_stream_id)
            THEN LET subs == add_external_subscriber(
                                external_subscribers,
                                InboundClientConnection(msg.identify.id,
                                                        msg.inbound_stream_id[1]))
                     snd == connection_pipe_send(pipe_back,
                                identify_back("route_to_connection_id", msg.identify.id,
                                              msg.inbound_stream_id[1]))
                 IN IF snd.ok
                    THEN [res |-> "Ok(true)", external_subscribers |-> subs,
                          pipe_back |-> snd.back]
                    ELSE [res |-> "Err", external_subscribers |-> subs,
                          pipe_back |-> pipe_back]
            ELSE unchanged("Ok(false)")

\* the internal subscribers a message is sent to, in the order of the table
InternalTargets(msg) ==
    IF is_some(msg.route_to_worker_id) /\ msg.route_to_worker_id # Some(self_worker_id)
    THEN <<>>
    ELSE SelectSeq(internal_subscribers, LAMBDA item : consumes_message(item, msg))

RECURSIVE deliver(_, _, _)
deliver(boxes, targets, msg) ==
    IF targets = <<>> THEN boxes
    ELSE deliver([boxes EXCEPT ![SubscriberId(Head(targets))] = mpsc_send(@, msg)],
                 Tail(targets), msg)

route_to_internal_subscriber(msg) ==
    [res |-> IF InternalTargets(msg) # <<>> THEN "Ok(true)" ELSE "Ok(false)",
     inbox |-> deliver(inbox, InternalTargets(msg), msg)]

\* one turn of MessageRouterHandler::async_main: route_msg on the next message of the
\* connection pipe; an Err of route_msg ends the loop
route_msg ==
    /\ router_up
    /\ connection_pipe # <<>>
    /\ LET msg == Head(connection_pipe)
       IN IF msg.kind = "Identify"
          THEN LET r == identify_external_subscriber(msg)
               IN /\ external_subscribers' = r.external_subscribers
                  /\ pipe_back' = r.pipe_back
                  /\ routed' = [msg |-> msg, res |-> r.res]
                  /\ router_up' = (r.res # "Err")
                  /\ UNCHANGED inbox
          ELSE IF msg.kind = "RunQuery"
          THEN LET r == route_to_internal_subscriber(msg)
               IN /\ inbox' = r.inbox
                  /\ routed' = [msg |-> msg, res |-> r.res]
                  /\ UNCHANGED <<external_subscribers, pipe_back, router_up>>
          ELSE /\ routed' = [msg |-> msg, res |-> "Err"]
               /\ router_up' = FALSE    \* RoutingRuleNotImplementedForMessage
               /\ UNCHANGED <<external_subscribers, pipe_back, inbox>>
    /\ connection_pipe' = Tail(connection_pipe)
    /\ UNCHANGED <<msgs_read, connection_rx, internal_subscribers>>
    /\ UNCHANGED <<hvars, cvars, ovars, dvars, gvars, pvars>>

\* InboundConnection::read_msgs decodes a message of stream s and sends it to the pool
read_msgs_forward(s) ==
    /\ msgs_read < MaxPeerMsgs
    /\ Len(connection_rx) < 1
    /\ \E m \in PeerMessages :
        connection_rx' =
            mpsc_send(connection_rx, [m EXCEPT !.msg_id = <<s, msgs_read + 1>>])
    /\ msgs_read' = msgs_read + 1
    /\ UNCHANGED <<connection_pipe, pipe_back, router_up, external_subscribers,
                   internal_subscribers, inbox, routed>>
    /\ UNCHANGED <<hvars, cvars, ovars, dvars, gvars, pvars>>

\* a message read from a connection this worker opened: tagged with its stream
outbound_forward(s) ==
    /\ msgs_read < MaxPeerMsgs
    /\ Len(connection_rx) < 1
    /\ \E m \in PeerMessages :
        connection_rx' =
            mpsc_send(connection_rx, [m EXCEPT !.msg_id = <<s, msgs_read + 1>>,
                                               !.outbound_stream_id = Some(s)])
    /\ msgs_read' = msgs_read + 1
    /\ UNCHANGED <<connection_pipe, pipe_back, router_up, external_subscribers,
                   internal_subscribers, inbox, routed>>
    /\ UNCHANGED <<hvars, cvars, ovars, dvars, gvars, pvars>>

\* InboundConnectionPoolHandler::async_main: a message of a reader goes to the router
pool_forward ==
    /\ connection_rx # <<>>
    /\ Len(connection_pipe) < 1
    /\ connection_pipe' = mpsc_send(connection_pipe, Head(connection_rx))
    /\ connection_rx' = Tail(connection_rx)
    /\ UNCHANGED <<msgs_read, pipe_back, router_up, external_subscribers,
                   internal_subscribers, inbox, routed>>
    /\ UNCHANGED <<hvars, cvars, ovars, dvars, gvars, pvars>>

\* ProducerOperator::async_main subscribes the host
producer_subscribe ==
    /\ host_pc = "start"
    /\ \A k \in 1..Len(internal_subscribers) :
            internal_subscribers[k] # ProducerOperatorSubscriber
    /\ internal_subscribers' =
            add_internal_subscriber(internal_subscribers, ProducerOperatorSubscriber)
    /\ host_pc' = "running"
    /\ UNCHANGED <<msgs_read, connection_rx, connection_pipe, pipe_back, router_up,
                   external_subscribers, inbox, routed>>
    /\ UNCHANGED <<host_n, host_handled, host_sent, task_inbox>>
    /\ UNCHANGED <<hvars, cvars, dvars, gvars, pvars>>

NoRouted == [msg |-> Message_new("none", NoIdentity), res |-> "none"]

InitRouter ==
    /\ msgs_read = 0
    /\ connection_rx = <<>>
    /\ connection_pipe = <<>>
    /\ pipe_back = <<>>
    /\ router_up = TRUE
    /\ external_subscribers = <<>>
    /\ internal_subscribers = <<QueryHandlerSubscriber>>
    /\ inbox = [i \in SubscriberIds |-> <<>>]
    /\ routed = NoRouted

NextRouter ==
    \/ route_msg
    \/ pool_forward
    \/ producer_subscribe
    \/ \E s \in Streams : read_msgs_forward(s)
    \/ \E s \in Streams : outbound_forward(s)

(***************************************************************************)
(* ProducerOperator::async_main: the host of a producer instance, between  *)
(* the router and its task.                                                *)
(***************************************************************************)
msg_name(msg) == IF msg.kind \in {"Ping::Ping", "Ping::Pong"} THEN "Ping" ELSE msg.kind

\* ProducerOperator::new: the host's pipe to the router
ProducerOperator_router_pipe ==
    set_sent_from_operation_id(set_sent_from_query_id(Pipe_new, ProducerQueryId),
                               ProducerInstanceId)

\* a message of another operator instance, on worker PeerWorkerId, to this host
RequestToHost(kind) ==
    [Message_new(kind, NoIdentity)
        EXCEPT !.route_to_operation_id = Some(ProducerInstanceId),
               !.route_to_worker_id = Some(self_worker_id),
               !.sent_from_worker_id = Some(PeerWorkerId),
               !.sent_from_operation_id = Some(QueryHandler_operator_id)]

\* what the host's subscriber channel may hold
HostInputs ==
    { RequestToHost("Ping::Ping"), RequestToHost("Ping::Pong"),
      RequestToHost("GetNextRecordResponseRecord"),
      RequestToHost("GetNextRecordResponseNoneLeft"),
      RequestToHost("ListOperatorInstancesResponse") }

\* what the task sends through the host
TaskOutputs ==
    { [Message_new("Ping::Ping", NoIdentity)
            EXCEPT !.route_to_operation_id = Some(QueryHandler_operator_id)],
      Message_new("ListOperatorInstancesRequest", NoIdentity) }

NoHostMessage == Message_new("none", NoIdentity)

\* the reply to a Ping: a Pong to the pinger, from this worker
handle_ping_message(msg) ==
    IF msg.kind = "Ping::Ping"
    THEN << [Message_new("Ping::Pong", NoIdentity)
                EXCEPT !.route_to_worker_id = msg.sent_from_worker_id,
                       !.route_to_operation_id = msg.sent_from_operation_id,
                       !.sent_from_worker_id = Some(self_worker_id)] >>
    ELSE <<>>

\* `handle_ping_message(&msg, ping_msg)?;` keeps nothing of an Ok value
discard(value) == <<>>

MaterializeFilesConsumer_consumes_message(msg) ==
    msg.kind \in {"Ping::Pong", "ListOperatorInstancesResponse",
                  "GetNextRecordResponseRecord"}

\* Some(msg) = router_pipe.recv(): a message of kind Ping is handled by the host, and
\* what handle_ping_message returns is dropped; any other goes to the task if the
\* task's consumer takes it
ProducerOperator_router_recv ==
    /\ host_pc = "running"
    /\ host_n < MaxHostMsgs
    /\ \E msg \in HostInputs :
        /\ host_handled' = msg
        /\ host_sent' = IF msg_name(msg) = "Ping"
                       THEN discard(handle_ping_message(msg))
                       ELSE <<>>
        /\ task_inbox' =
            IF msg_name(msg) = "Ping" THEN task_inbox
            ELSE IF MaterializeFilesConsumer_consumes_message(msg)
            THEN mpsc_send(task_inbox, msg)
            ELSE task_inbox
    /\ host_n' = host_n + 1
    /\ UNCHANGED host_pc
    /\ UNCHANGED <<hvars, cvars, rvars, dvars, gvars, pvars>>

\* Some(msg) = task_pipe.recv(): the host passes the task's message to the router
ProducerOperator_task_recv ==
    /\ host_pc = "running"
    /\ host_n < MaxHostMsgs
    /\ \E msg \in TaskOutputs :
        host_sent' = << Pipe_send(ProducerOperator_router_pipe, msg) >>
    /\ host_handled' = NoHostMessage
    /\ host_n' = host_n + 1
    /\ UNCHANGED <<host_pc, task_inbox>>
    /\ UNCHANGED <<hvars, cvars, rvars, dvars, gvars, pvars>>

\* the task's future ends or the token is cancelled: the loop is left
ProducerOperator_break ==
    /\ host_pc = "running"
    /\ host_pc' = "closing"
    /\ host_handled' = NoHostMessage
    /\ host_sent' = <<>>
    /\ UNCHANGED <<host_n, task_inbox>>
    /\ UNCHANGED <<hvars, cvars, rvars, dvars, gvars, pvars>>

\* the task's subtree closes, or 30 s pass first
ProducerOperator_return ==
    /\ host_pc = "closing"
    /\ host_pc' \in {"Ok", "TimedOutWaitingForTaskToClose"}
    /\ UNCHANGED <<host_n, host_handled, host_sent, task_inbox>>
    /\ UNCHANGED <<hvars, cvars, rvars, dvars, gvars, pvars>>

InitHost ==
    /\ host_pc = "start"
    /\ host_n = 0
    /\ host_handled = NoHostMessage
    /\ host_sent = <<>>
    /\ task_inbox = <<>>

NextHost ==
    \/ producer_subscribe
    \/ ProducerOperator_router_recv
    \/ ProducerOperator_task_recv
    \/ ProducerOperator_break
    \/ ProducerOperator_return

(***************************************************************************)
(* IdentifyExchangeRequest: a producer's task looks up the instance of its *)
(* outbound exchange and the worker that hosts it.                         *)
(***************************************************************************)
num_retries == 2

ExchangeInstanceId == 70
OtherExchangeInstanceId == 71

\* what Pipe::send_request gives back for a ListOperatorInstancesRequest
ListResponses ==
    { [res |-> "Err", kind |-> "timeout", op_instance_ids |-> <<>>],
      [res |-> "Ok", kind |-> "ListOperatorInstancesResponse", op_instance_ids |-> <<>>],
      [res |-> "Ok", kind |-> "ListOperatorInstancesResponse",
       op_instance_ids |-> <<ExchangeInstanceId>>],
      [res |-> "Ok", kind |-> "ListOperatorInstancesResponse",
       op_instance_ids |-> <<ExchangeInstanceId, OtherExchangeInstanceId>>],
      [res |-> "Ok", kind |-> "ListOperatorInstancesRequest", op_instance_ids |-> <<>>] }

\* what Pipe::send_request gives back for a Ping
PingResponses ==
    { [res |-> "Err", kind |-> "timeout", sent_from_worker_id |-> None],
      [res |-> "Ok", kind |-> "Ping::Pong", sent_from_worker_id |-> Some(PeerWorkerId)],
      [res |-> "Ok", kind |-> "Ping::Pong", sent_from_worker_id |-> None],
      [res |-> "Ok", kind |-> "Ping::Ping", sent_from_worker_id |-> Some(PeerWorkerId)] }

Ok(val) == [ok |-> TRUE, val |-> val, err |-> ""]
Err(err) == [ok |-> FALSE, val |-> 0, err |-> err]

get_exchange_operator_instance_id(resp) ==
    IF resp.res = "Err" THEN Err("TimedOutWaitingForResponse")
    ELSE IF resp.kind = "ListOperatorInstancesResponse"
    THEN IF Len(resp.op_instance_ids) = 1 THEN Ok(resp.op_instance_ids[1])
         ELSE IF Len(resp.op_instance_ids) = 0
         THEN Err("ReceivedNoOperatorInstancesForTheExchange")
         ELSE Err("ReceivedMultipleOperatorInstancesForTheExchange")
    ELSE Err("ReceivedTheWrongMessageType")

get_exchange_worker_id(instance_id, resp) ==
    IF ~is_some(instance_id) THEN Err("ExchangeOperatorInstanceIdNotSet")
    ELSE IF resp.res = "Err" THEN Err("TimedOutWaitingForResponse")
    ELSE IF resp.kind = "Ping::Pong"
    THEN IF is_some(resp.sent_from_worker_id) THEN Ok(resp.sent_from_worker_id[1])
         ELSE Err("ReceivedMessageWithoutAWorkerId")
    ELSE Err("ReceivedTheWrongMessageType")

\* `if retry_idx == num_retries` of the two _with_retry loops
is_last_attempt_never(idx, retries) == FALSE
is_last_attempt(idx, retries) == idx = retries

\* request_outbound_exhcnage: only a producer has an outbound exchange
request_outbound_exhcnage ==
    /\ disc_pc = "start"
    /\ \E operator_type \in {"Producer", "Exchange"} :
        IF operator_type = "Producer"
        THEN disc_pc' = "list" /\ UNCHANGED disc_err
        ELSE disc_pc' = "Err" /\ disc_err' = "OperatorTypeNotImplemented"
    /\ UNCHANGED <<retry_idx, exchange_operator_instance_id, exchange_worker_id, disc_log>>
    /\ UNCHANGED <<hvars, cvars, rvars, ovars, gvars, pvars>>

\* one turn of get_exchange_operator_instance_id_with_retry
get_exchange_operator_instance_id_with_retry ==
    /\ disc_pc = "list"
    /\ \E resp \in ListResponses :
        LET res == get_exchange_operator_instance_id(resp)
        IN /\ disc_log' = Append(disc_log, [req |-> "ListOperatorInstancesRequest",
                                            resp |-> resp, res |-> res])
           /\ IF res.ok
              THEN /\ exchange_operator_instance_id' = Some(res.val)
                   /\ disc_pc' = "ping"
                   /\ retry_idx' = 0
                   /\ UNCHANGED disc_err
              ELSE IF is_last_attempt(retry_idx, num_retries)
              THEN /\ disc_pc' = "Err"
                   /\ disc_err' = res.err
                   /\ UNCHANGED <<exchange_operator_instance_id, retry_idx>>
              ELSE /\ retry_idx' = retry_idx + 1
                   /\ UNCHANGED <<exchange_operator_instance_id, disc_pc, disc_err>>
    /\ UNCHANGED exchange_worker_id
    /\ UNCHANGED <<hvars, cvars, rvars, ovars, gvars, pvars>>

\* one turn of get_exchange_worker_id_with_retry; after its Ok the two ids are checked
get_exchange_worker_id_with_retry ==
    /\ disc_pc = "ping"
    /\ \E resp \in PingResponses :
        LET res == get_exchange_worker_id(exchange_operator_instance_id, resp)
        IN /\ disc_log' = Append(disc_log, [req |-> "Ping", resp |-> resp, res |-> res])
           /\ IF res.ok
              THEN /\ exchange_worker_id' = Some(res.val)
                   /\ IF is_some(exchange_operator_instance_id)
                      THEN disc_pc' = "Ok" /\ UNCHANGED disc_err
                      ELSE disc_pc' = "Err" /\ disc_err' = "MissingPartOfResponse"
                   /\ UNCHANGED retry_idx
              ELSE IF is_last_attempt(retry_idx, num_retries)
              THEN /\ disc_pc' = "Err"
                   /\ disc_err' = res.err
                   /\ UNCHANGED <<exchange_worker_id, retry_idx>>
              ELSE /\ retry_idx' = retry_idx + 1
                   /\ UNCHANGED <<exchange_worker_id, disc_pc, disc_err>>
    /\ UNCHANGED exchange_operator_instance_id
    /\ UNCHANGED <<hvars, cvars, rvars, ovars, gvars, pvars>>

InitDiscovery ==
    /\ disc_pc = "start"
    /\ retry_idx = 0
    /\ exchange_operator_instance_id = None
    /\ exchange_worker_id = None
    /\ disc_err = ""
    /\ disc_log = <<>>

NextDiscovery ==
    \/ request_outbound_exhcnage
    \/ get_exchange_operator_instance_id_with_retry
    \/ get_exchange_worker_id_with_retry

(***************************************************************************)
(* QueryDataHandler: pages through the parquet files of a query's result.  *)
(* A file is the sequence of the row counts of its row groups; file k of   *)
(* the store is rec_k.parquet.  u64 is modelled 31 bits wide.              *)
(***************************************************************************)
u64_MAX == 2147483647

wrapping_sub(a, b) == IF a >= b THEN a - b ELSE u64_MAX - (b - a) + 1

min(a, b) == IF a <= b THEN a ELSE b

\* the rows of row group g of file f, each known by its position
RowGroupRows(f, g, num_rows) == [i \in 1..num_rows |-> <<f, g, i - 1>>]

\* RecordBatch::slice(offset, length)
slice(rec, offset, length) == SubSeq(rec, offset + 1, offset + length)

ReverseSeq(seq) == [i \in 1..Len(seq) |-> seq[Len(seq) + 1 - i]]

RECURSIVE concat_batches(_)
concat_batches(recs) ==
    IF recs = <<>> THEN <<>> ELSE Head(recs) \o concat_batches(Tail(recs))

\* get_row_group_data: the first batch of the row group and the number of row groups;
\* a row group index past the end of an existing file is an error other than
\* QueryFileDoesNotExist
get_row_group_data(store, file_idx, file_row_group_idx) ==
    IF file_idx >= Len(store) THEN [res |-> "Err", err |-> "QueryFileDoesNotExist"]
    ELSE LET num_row_groups == Len(store[file_idx + 1])
             idx == IF file_row_group_idx = u64_MAX THEN num_row_groups - 1
                    ELSE file_row_group_idx
         IN IF idx >= num_row_groups
            THEN [res |-> "Err", err |-> "RowGroupDoesNotExistInTheFile"]
            ELSE [res |-> "Ok",
                  rec |-> RowGroupRows(file_idx, idx, store[file_idx + 1][idx + 1]),
                  num_row_groups |-> num_row_groups]

get_record_data_finish_offsets_in_read_order(s, forward) ==
    IF s.recs # <<>>
    THEN [res |-> "Ok(Some)",
          rec |-> IF forward THEN concat_batches(s.recs)
                  ELSE concat_batches(ReverseSeq(s.recs)),
          rec_offsets |-> concat_batches(s.rec_offsets)]
    ELSE [res |-> "Ok(None)"]

\* the end of get_record_data: the slices are put together
get_record_data_finish(s, forward) ==
    IF s.recs # <<>>
    THEN [res |-> "Ok(Some)",
          rec |-> IF forward THEN concat_batches(s.recs)
                  ELSE concat_batches(ReverseSeq(s.recs)),
          rec_offsets |-> IF forward THEN concat_batches(s.rec_offsets)
                          ELSE concat_batches(ReverseSeq(s.rec_offsets))]
    ELSE [res |-> "Ok(None)"]

\* the loop of get_record_data from the state s = (current_file_idx,
\* current_file_row_group_idx, recs, rec_offsets, total_rows_in_recs); a `continue`
\* that leaves s as it was never ends
RECURSIVE get_record_data_loop(_, _, _, _, _, _, _, _)
get_record_data_loop(store, s, file_idx, file_row_group_idx, row_idx, limit, forward, overflow_checks) ==
    LET res == get_row_group_data(store, s.current_file_idx, s.current_file_row_group_idx)
    IN IF res.res = "Err"
       THEN IF res.err = "QueryFileDoesNotExist"
            THEN get_record_data_finish(s, forward)
            ELSE [res |-> "Err", err |-> res.err]
       ELSE
        LET num_rows == Len(res.rec)
            cur_rg == IF s.current_file_row_group_idx = u64_MAX
                      THEN res.num_row_groups - 1 ELSE s.current_file_row_group_idx
            s1 == [s EXCEPT !.current_file_row_group_idx = cur_rg]
            at_start == /\ s.current_file_idx = file_idx
                        /\ cur_rg = file_row_group_idx
            remaining == limit - s.total_rows_in_recs
            fwd_start == IF at_start THEN row_idx ELSE 0
            bwd_start == IF at_start
                         THEN IF row_idx = u64_MAX THEN num_rows ELSE row_idx
                         ELSE num_rows
            start_row_idx == IF forward THEN fwd_start
                             ELSE bwd_start - min(bwd_start, remaining)
            length == IF forward THEN min(wrapping_sub(num_rows, fwd_start), remaining)
                      ELSE min(bwd_start, remaining)
            offsets == [i \in 1..length |->
                            <<s.current_file_idx, cur_rg, start_row_idx + i - 1>>]
            pushed == [s1 EXCEPT
                        !.recs = Append(@, slice(res.rec, start_row_idx, length)),
                        !.rec_offsets = Append(@, offsets),
                        !.total_rows_in_recs = @ + length]
            moved == IF forward
                     THEN IF cur_rg = res.num_row_groups - 1
                          THEN [pushed EXCEPT !.current_file_idx = @ + 1,
                                              !.current_file_row_group_idx = 0]
                          ELSE [pushed EXCEPT !.current_file_row_group_idx = @ + 1]
                     ELSE IF s.current_file_idx > 0 /\ cur_rg = 0
                          THEN [pushed EXCEPT !.current_file_idx = @ - 1,
                                              !.current_file_row_group_idx = u64_MAX]
                          ELSE [pushed EXCEPT !.current_file_row_group_idx = @ - 1]
        IN IF num_rows = 0
           THEN IF s1 = s THEN [res |-> "never returns"]
                ELSE get_record_data_loop(store, s1, file_idx, file_row_group_idx,
                                          row_idx, limit, forward, overflow_checks)
           ELSE IF forward /\ fwd_start > num_rows /\ overflow_checks
           THEN [res |-> "panic"]       \* attempt to subtract with overflow
           ELSE IF start_row_idx >= num_rows
           THEN IF s1 = s THEN [res |-> "never returns"]
                ELSE get_record_data_loop(store, s1, file_idx, file_row_group_idx,
                                          row_idx, limit, forward, overflow_checks)
           ELSE IF start_row_idx + length > num_rows
           THEN [res |-> "panic"]       \* RecordBatch::slice out of bounds
           ELSE IF ~forward /\ s.current_file_idx = 0 /\ cur_rg = 0
           THEN get_record_data_finish(pushed, forward)
           ELSE IF moved.total_rows_in_recs >= limit
           THEN get_record_data_finish(moved, forward)
           ELSE get_record_data_loop(store, moved, file_idx, file_row_group_idx,
                                     row_idx, limit, forward, overflow_checks)

get_record_data(store, file_idx, file_row_group_idx, row_idx, limit, forward, overflow_checks) ==
    IF limit = 0 THEN [res |-> "Ok(None)"]
    ELSE get_record_data_loop(
            store,
            [current_file_idx |-> file_idx,
             current_file_row_group_idx |-> file_row_group_idx,
             recs |-> <<>>, rec_offsets |-> <<>>, total_rows_in_recs |-> 0],
            file_idx, file_row_group_idx, row_idx, limit, forward, overflow_checks)

NoRecord == [kind |-> "none", record |-> <<>>, record_offsets |-> <<>>]

\* the response handle_get_query_data sends; none when get_record_data does not return
GetQueryDataResp(r) ==
    IF r.res = "Ok(Some)"
    THEN [kind |-> "Record", record |-> r.rec, record_offsets |-> r.rec_offsets]
    ELSE IF r.res = "Ok(None)" THEN [NoRecord EXCEPT !.kind = "RecordRowGroupNotFound"]
    ELSE IF r.res = "Err"
    THEN IF r.err = "QueryFileDoesNotExist"
         THEN [NoRecord EXCEPT !.kind = "ReachedEndOfFiles"]
         ELSE [NoRecord EXCEPT !.kind = "Error"]
    ELSE [NoRecord EXCEPT !.kind = r.res]

\* the files a query can have written: every file has a row group, every row group a row
RowGroupSizes == UNION {[1..n -> 1..MaxRowsPerGroup] : n \in 1..MaxRowGroups}
Stores == UNION {[1..n -> RowGroupSizes] : n \in 0..MaxFiles}

GetQueryDataRequests ==
    [file_idx : 0..MaxFiles \cup {u64_MAX},
     file_row_group_idx : 0..MaxRowGroups \cup {u64_MAX},
     row_idx : 0..(MaxRowsPerGroup + 1) \cup {u64_MAX},
     limit : 0..MaxLimit,
     forward : BOOLEAN,
     kind : {"GetQueryData"}]

NoRequest ==
    [file_idx |-> 0, file_row_group_idx |-> 0, row_idx |-> 0, limit |-> 0,
     forward |-> TRUE, kind |-> "none"]

\* Some(msg) = router_pipe.recv(), handle_message: a GetQueryData is answered
handle_get_query_data ==
    /\ qd_req = NoRequest
    /\ \E req \in GetQueryDataRequests, overflow_checks \in BOOLEAN :
        /\ qd_req' = req
        /\ qd_resp' = GetQueryDataResp(
                        get_record_data(qd_store, req.file_idx, req.file_row_group_idx,
                                        req.row_idx, req.limit, req.forward,
                                        overflow_checks))
    /\ UNCHANGED qd_store
    /\ UNCHANGED <<hvars, cvars, rvars, ovars, dvars, pvars>>

InitQueryDataIdle ==
    /\ qd_store = <<>>
    /\ qd_req = NoRequest
    /\ qd_resp = NoRecord

InitQueryData ==
    /\ qd_store \in Stores
    /\ qd_req = NoRequest
    /\ qd_resp = NoRecord

\* inner_async_main: back to the head of the loop
inner_async_main_loop ==
    /\ qd_req # NoRequest
    /\ qd_req' = NoRequest
    /\ qd_resp' = NoRecord
    /\ UNCHANGED qd_store
    /\ UNCHANGED <<hvars, cvars, rvars, ovars, dvars, pvars>>

NextQueryData == handle_get_query_data \/ inner_async_main_loop

(***************************************************************************)
(* InboundConnectionPoolHandler::async_main and its readers: accept,       *)
(* forward, cancellation and the wait for the readers.                     *)
(***************************************************************************)
AllReturned(rs) == \A k \in 1..Len(rs) : rs[k] = "returned"

\* listener.accept(): a read_msgs task is spawned; with an empty buffer it goes to
\* stream.read_buf
pool_accept(max_connections) ==
    /\ pool_pc = "loop"
    /\ Len(readers) < max_connections
    /\ readers' = Append(readers, "read_buf")
    /\ UNCHANGED <<pool_ct, pool_pc, pool_rx>>
    /\ UNCHANGED <<hvars, cvars, rvars, ovars, dvars, gvars>>

\* stream.read_buf returns: the peer sent a message (next: msg_sender.send) or
\* closed the connection (read_msgs returns)
read_msgs_read_buf(k) ==
    /\ k <= Len(readers)
    /\ readers[k] = "read_buf"
    /\ \E next \in {"send", "returned"} : readers' = [readers EXCEPT ![k] = next]
    /\ UNCHANGED <<pool_ct, pool_pc, pool_rx>>
    /\ UNCHANGED <<hvars, cvars, rvars, ovars, dvars, gvars>>

\* msg_sender.send(msg) completes when the channel has room; then back to read_buf
read_msgs_send(k) ==
    /\ k <= Len(readers)
    /\ readers[k] = "send"
    /\ pool_rx < 1
    /\ pool_rx' = pool_rx + 1
    /\ readers' = [readers EXCEPT ![k] = "read_buf"]
    /\ UNCHANGED <<pool_ct, pool_pc>>
    /\ UNCHANGED <<hvars, cvars, rvars, ovars, dvars, gvars>>

\* Some(msg) = connection_rx.recv()
pool_recv ==
    /\ pool_pc = "loop"
    /\ pool_rx > 0
    /\ pool_rx' = pool_rx - 1
    /\ UNCHANGED <<pool_ct, pool_pc, readers>>
    /\ UNCHANGED <<hvars, cvars, rvars, ovars, dvars, gvars>>

\* the owner of the token cancels it
pool_cancel ==
    /\ ~pool_ct
    /\ pool_ct' = TRUE
    /\ UNCHANGED <<pool_pc, pool_rx, readers>>
    /\ UNCHANGED <<hvars, cvars, rvars, ovars, dvars, gvars>>

\* _ = ct.cancelled() => break, then tt.close()
pool_cancelled ==
    /\ pool_pc = "loop"
    /\ pool_ct
    /\ pool_pc' = "closing"
    /\ UNCHANGED <<pool_ct, pool_rx, readers>>
    /\ UNCHANGED <<hvars, cvars, rvars, ovars, dvars, gvars>>

\* tt.wait() against the 30 s sleep: the sleep wins when a reader is still in
\* read_buf or send after that time; read_msgs holds no token that would end it
pool_wait ==
    /\ pool_pc = "closing"
    /\ pool_pc' = IF AllReturned(readers) THEN "Ok"
                  ELSE "TimedOutWaitingForConnectionsToClose"
    /\ UNCHANGED <<pool_ct, pool_rx, readers>>
    /\ UNCHANGED <<hvars, cvars, rvars, ovars, dvars, gvars>>

InitPool ==
    /\ pool_ct = FALSE
    /\ pool_pc = "loop"
    /\ pool_rx = 0
    /\ readers = <<>>

NextPool ==
    \/ pool_accept(MaxConnections)
    \/ \E k \in 1..MaxConnections : read_msgs_read_buf(k)
    \/ \E k \in 1..MaxConnections : read_msgs_send(k)
    \/ pool_recv
    \/ pool_cancel
    \/ pool_cancelled
    \/ pool_wait

(***************************************************************************)
(* The query handler and the workers.                                      *)
(***************************************************************************)
InitHandler ==
    /\ queries = <<>>
    /\ next_id = 1
    /\ handler_up = TRUE
    /\ to_handler = [w \in Workers |-> <<>>]
    /\ to_worker = [w \in Workers |-> <<>>]
    /\ operator_instances = [w \in Workers |-> <<>>]
    /\ handled = NoMsg
    /\ sent = <<>>
    /\ assigns = [i \in 1..MaxIds |-> <<>>]
    /\ foreign = [w \in Workers |-> 0]
    /\ failed = {}
    /\ log = <<>>
    /\ injected = 0

InitCodecIdle ==
    /\ cmsg = <<>>
    /\ cbuf = <<>>
    /\ cout = <<>>
    /\ cpc = "off"
    /\ cwire = <<>>
    /\ cfwd = <<>>

Init == InitHandler /\ InitCodecIdle /\ InitRouter /\ InitHost /\ InitDiscovery /\ InitQueryDataIdle
    /\ InitPool

Next ==
    \/ handle_run_query(MaxQueries)
    \/ handle_get_query_status
    \/ \E w \in Workers : handle_operator_instance_response(w)
    \/ \E w \in Workers : handle_operator_instance_assignment_responses(w)
    \/ \E w \in Workers : handle_operator_instance_status_change(w)
    \/ \E w \in Workers : worker_notification(w)
    \/ \E w \in Workers : foreign_assign(w)
    \/ \E w \in Workers : worker_assign(w)
    \/ \E w \in Workers : worker_operator_status_change(w)
    \/ \E w \in Workers : worker_shutdown(w)
    \/ \E w \in Workers : task_done(w)
    \/ \E w \in Workers : host_timed_out(w)

Spec == Init /\ [][Next]_vars

\* the query handler with peers that choose the ids of their messages
NextInjected ==
    \/ handle_run_query(MaxQueries)
    \/ \E w \in Workers : peer_sends(w, MaxInjected)
    \/ \E w \in Workers : handle_operator_instance_response(w)
    \/ \E w \in Workers : handle_operator_instance_assignment_responses(w)
    \/ \E w \in Workers : handle_operator_instance_status_change(w)
    \/ \E w \in Workers : worker_notification(w)
    \/ \E w \in Workers : worker_assign(w)
    \/ \E w \in Workers : task_done(w)

SpecInjected == Init /\ [][NextInjected]_vars

SpecRouter == Init /\ [][NextRouter]_vars

SpecHost == Init /\ [][NextHost]_vars

SpecPool == Init /\ [][NextPool]_vars

SpecDiscovery == Init /\ [][NextDiscovery]_vars

InitSpecQueryData ==
    InitHandler /\ InitCodecIdle /\ InitRouter /\ InitHost /\ InitDiscovery /\ InitQueryData
    /\ InitPool

SpecQueryData == InitSpecQueryData /\ [][NextQueryData]_vars

(***************************************************************************)
(* The wire codec: SerializedMessage and Message.                          *)
(***************************************************************************)
HEADER_VERSION == 0

\* put_u8 .. put_u128: big-endian, width bytes
RECURSIVE put_uint(_, _)
put_uint(n, width) ==
    IF width = 0 THEN <<>> ELSE Append(put_uint(n \div 256, width - 1), n % 256)

\* get_u8 .. get_u128 of the bytes at a cursor position (0-based) of a buffer
RECURSIVE get_uint_from(_, _)
get_uint_from(bytes, acc) ==
    IF bytes = <<>> THEN acc ELSE get_uint_from(Tail(bytes), acc * 256 + Head(bytes))

get_uint(data, position, width) ==
    get_uint_from(SubSeq(data, position + 1, position + width), 0)

BitSet(flags, bit) == (flags \div (2 ^ bit)) % 2 = 1
BitOr(flags, bit) == IF BitSet(flags, bit) THEN flags ELSE flags + 2 ^ bit

header_len == 8 + 2 + 2 + 16 + 1 + 16 + 16 + 16 + 16 + 1 + 16 + 16 + 16

SerializedMessage_new(msg) ==
    [header_len |-> header_len,
     data_len |-> Len(msg.msg),
     header_version |-> HEADER_VERSION,
     msg_name_id |-> msg.msg_name_id,
     msg_id |-> msg.msg_id,
     sent_from_flags |->
        LET f0 == IF is_some(msg.sent_from_worker_id) THEN BitOr(0, 0) ELSE 0
            f1 == IF is_some(msg.sent_from_pipeline_id) THEN BitOr(f0, 1) ELSE f0
            f2 == IF is_some(msg.sent_from_operation_id) THEN BitOr(f1, 2) ELSE f1
        IN IF is_some(msg.sent_from_connection_id) THEN BitOr(f2, 3) ELSE f2,
     sent_from_worker_id |-> unwrap_or_0(msg.sent_from_worker_id),
     sent_from_pipeline_id |-> unwrap_or_0(msg.sent_from_pipeline_id),
     sent_from_operation_id |-> unwrap_or_0(msg.sent_from_operation_id),
     sent_from_connection_id |-> unwrap_or_0(msg.sent_from_connection_id),
     routing_flags |->
        LET f0 == IF is_some(msg.route_to_worker_id) THEN BitOr(0, 0) ELSE 0
            f1 == IF is_some(msg.route_to_operation_id) THEN BitOr(f0, 1) ELSE f0
        IN IF is_some(msg.route_to_connection_id) THEN BitOr(f1, 2) ELSE f1,
     route_to_worker_id |-> unwrap_or_0(msg.route_to_worker_id),
     route_to_operation_id |-> unwrap_or_0(msg.route_to_operation_id),
     route_to_connection_id |-> unwrap_or_0(msg.route_to_connection_id),
     msg_data |-> msg.msg]

SerializedMessage_to_bytes(self) ==
    put_uint(self.header_len, 4)
    \o put_uint(self.data_len, 8)
    \o put_uint(self.header_version, 2)
    \o put_uint(self.msg_name_id, 2)
    \o put_uint(self.msg_id, 16)
    \o put_uint(self.sent_from_flags, 1)
    \o put_uint(self.sent_from_worker_id, 16)
    \o put_uint(self.sent_from_pipeline_id, 16)
    \o put_uint(self.sent_from_operation_id, 16)
    \o put_uint(self.sent_from_connection_id, 16)
    \o put_uint(self.routing_flags, 1)
    \o put_uint(self.route_to_worker_id, 16)
    \o put_uint(self.route_to_operation_id, 16)
    \o put_uint(self.route_to_connection_id, 16)
    \o self.msg_data

Message_to_bytes(msg) == SerializedMessage_to_bytes(SerializedMessage_new(msg))

\* Err(Incomplete) or Ok(())
check(data) ==
    IF Len(data) < 4 + 8 THEN "Incomplete"
    ELSE IF Len(data) < get_uint(data, 0, 4) + get_uint(data, 4, 8) THEN "Incomplete"
    ELSE "Ok"

\* Result of parse: the serialized message and the buffer after data.advance; a read
\* or an advance past the end of the buffer panics
parse(data) ==
    IF check(data) # "Ok" THEN [res |-> check(data), ser_msg |-> <<>>, data |-> data]
    ELSE IF Len(data) < 4 + header_len
    THEN [res |-> "panic", ser_msg |-> <<>>, data |-> data]
    ELSE LET ser_msg ==
                [header_len |-> get_uint(data, 0, 4),
                 data_len |-> get_uint(data, 4, 8),
                 header_version |-> get_uint(data, 12, 2),
                 msg_name_id |-> get_uint(data, 14, 2),
                 msg_id |-> get_uint(data, 16, 16),
                 sent_from_flags |-> get_uint(data, 32, 1),
                 sent_from_worker_id |-> get_uint(data, 33, 16),
                 sent_from_pipeline_id |-> get_uint(data, 49, 16),
                 sent_from_operation_id |-> get_uint(data, 65, 16),
                 sent_from_connection_id |-> get_uint(data, 81, 16),
                 routing_flags |-> get_uint(data, 97, 1),
                 route_to_worker_id |-> get_uint(data, 98, 16),
                 route_to_operation_id |-> get_uint(data, 114, 16),
                 route_to_connection_id |-> get_uint(data, 130, 16),
                 msg_data |-> SubSeq(data, 147, Len(data))]
             claimed == 4 + ser_msg.header_len + ser_msg.data_len
         IN IF claimed > Len(data)
            THEN [res |-> "panic", ser_msg |-> ser_msg, data |-> data]
            ELSE [res |-> "Ok", ser_msg |-> ser_msg,
                  data |-> SubSeq(data, claimed + 1, Len(data))]

build_from_serialized_message_zero_is_none(ser_msg, msg) ==
    [msg_name_id |-> ser_msg.msg_name_id,
     msg_id |-> ser_msg.msg_id,
     msg |-> msg,
     sent_from_worker_id |->
        IF ser_msg.sent_from_worker_id # 0 THEN Some(ser_msg.sent_from_worker_id) ELSE None,
     sent_from_pipeline_id |->
        IF ser_msg.sent_from_pipeline_id # 0 THEN Some(ser_msg.sent_from_pipeline_id)
        ELSE None,
     sent_from_operation_id |->
        IF ser_msg.sent_from_operation_id # 0 THEN Some(ser_msg.sent_from_operation_id)
        ELSE None,
     sent_from_connection_id |->
        IF ser_msg.sent_from_connection_id # 0 THEN Some(ser_msg.sent_from_connection_id)
        ELSE None,
     route_to_worker_id |->
        IF ser_msg.route_to_worker_id # 0 THEN Some(ser_msg.route_to_worker_id) ELSE None,
     route_to_operation_id |->
        IF ser_msg.route_to_operation_id # 0 THEN Some(ser_msg.route_to_operation_id)
        ELSE None,
     route_to_connection_id |->
        IF ser_msg.route_to_connection_id # 0 THEN Some(ser_msg.route_to_connection_id)
        ELSE None]

build_from_serialized_message(ser_msg, msg) ==
    [msg_name_id |-> ser_msg.msg_name_id,
     msg_id |-> ser_msg.msg_id,
     msg |-> msg,
     sent_from_worker_id |->
        IF BitSet(ser_msg.sent_from_flags, 0) THEN Some(ser_msg.sent_from_worker_id)
        ELSE None,
     sent_from_pipeline_id |->
        IF BitSet(ser_msg.sent_from_flags, 1) THEN Some(ser_msg.sent_from_pipeline_id)
        ELSE None,
     sent_from_operation_id |->
        IF BitSet(ser_msg.sent_from_flags, 2) THEN Some(ser_msg.sent_from_operation_id)
        ELSE None,
     sent_from_connection_id |->
        IF BitSet(ser_msg.sent_from_flags, 3) THEN Some(ser_msg.sent_from_connection_id)
        ELSE None,
     route_to_worker_id |->
        IF BitSet(ser_msg.routing_flags, 0) THEN Some(ser_msg.route_to_worker_id)
        ELSE None,
     route_to_operation_id |->
        IF BitSet(ser_msg.routing_flags, 1) THEN Some(ser_msg.route_to_operation_id)
        ELSE None,
     route_to_connection_id |->
        IF BitSet(ser_msg.routing_flags, 2) THEN Some(ser_msg.route_to_connection_id)
        ELSE None]

(***************************************************************************)
(* MessageRegistry::build_msg and the messages the codec is run on.        *)
(***************************************************************************)
RegisteredMsgIds == {0, 1}      \* MessageName::as_u16 of Ping and Identify

parse_registered_msg_id(data) ==
    IF Len(data) < 4 + 8 + 2 + 2 THEN [res |-> "Incomplete", id |-> 0]
    ELSE [res |-> "Ok", id |-> get_uint(data, 4 + 8 + 2, 2)]

\* the body of a message is kept as the bytes its to_bytes gives; the parser of a
\* registered kind turns the bytes of the frame back into the body
build_msg(data) ==
    LET reg == parse_registered_msg_id(data)
        parsed == parse(data)
    IN IF reg.res # "Ok" THEN [res |-> "Incomplete", msg |-> <<>>, data |-> data]
       ELSE IF reg.id \notin RegisteredMsgIds
       THEN [res |-> "MessageIdNotInRegistry", msg |-> <<>>, data |-> data]
       ELSE IF parsed.res = "Ok"
       THEN [res |-> "Ok",
             msg |-> build_from_serialized_message(parsed.ser_msg, parsed.ser_msg.msg_data),
             data |-> parsed.data]
       ELSE IF parsed.res = "Incomplete"
       THEN [res |-> "IncompleteMessage", msg |-> <<>>, data |-> data]
       ELSE [res |-> parsed.res, msg |-> <<>>, data |-> data]

Bytes == {0, 255}
Ids == {0, 258}
OptionIds == {None} \cup {Some(id) : id \in Ids}

RECURSIVE Payloads(_)
Payloads(n) ==
    IF n = 0 THEN {<<>>}
    ELSE Payloads(n - 1) \cup {Append(p, b) : p \in Payloads(n - 1), b \in Bytes}

Messages ==
    [msg_name_id : RegisteredMsgIds,
     msg_id : {1, 258},
     msg : Payloads(MaxPayloadLen),
     sent_from_worker_id : OptionIds,
     sent_from_pipeline_id : OptionIds,
     sent_from_operation_id : OptionIds,
     sent_from_connection_id : OptionIds,
     route_to_worker_id : OptionIds,
     route_to_operation_id : OptionIds,
     route_to_connection_id : OptionIds]

NoResult == [res |-> "none", msg |-> <<>>, data |-> <<>>]

\* the sender encodes the message and the bytes reach the receiver's buffer
codec_write ==
    /\ cpc = "new"
    /\ cbuf' = cbuf \o Message_to_bytes(cmsg)
    /\ cpc' = "written"
    /\ UNCHANGED <<cmsg, cout, cwire, cfwd>>
    /\ UNCHANGED <<hvars, rvars, ovars, dvars, gvars, pvars>>

\* the receiver decodes the buffer
codec_read ==
    /\ cpc = "written"
    /\ cout' = build_msg(cbuf)
    /\ cbuf' = build_msg(cbuf).data
    /\ cpc' = "read"
    /\ UNCHANGED <<cmsg, cwire, cfwd>>
    /\ UNCHANGED <<hvars, rvars, ovars, dvars, gvars, pvars>>

InitCodec ==
    /\ cmsg \in Messages
    /\ cbuf = <<>>
    /\ cout = NoResult
    /\ cpc = "new"
    /\ cwire = <<>>
    /\ cfwd = <<>>

NextCodec == codec_write \/ codec_read

InitSpecCodec == InitHandler /\ InitCodec /\ InitRouter /\ InitHost /\ InitDiscovery /\ InitQueryDataIdle
    /\ InitPool

SpecCodec == InitSpecCodec /\ [][NextCodec]_vars

(***************************************************************************)
(* InboundConnection::read_msgs: the reader task of one accepted socket.    *)
(* cmsg holds the messages the peer sent, cwire their bytes still on the   *)
(* way, cbuf the reader's buffer, cpc the reader's position.               *)
(***************************************************************************)
\* kind ids a peer may put into a frame: the registered ones and one that is not
StreamMsgIds == RegisteredMsgIds \cup {Cardinality(RegisteredMsgIds) + 7}

StreamMessages ==
    [msg_name_id : StreamMsgIds,
     msg_id : {1},
     msg : {<<>>, <<255>>},
     sent_from_worker_id : {Some(0)},
     sent_from_pipeline_id : {None},
     sent_from_operation_id : {None},
     sent_from_connection_id : {None},
     route_to_worker_id : {None},
     route_to_operation_id : {None},
     route_to_connection_id : {None}]

RECURSIVE StreamsOf(_)
StreamsOf(n) ==
    IF n = 0 THEN {<<>>}
    ELSE StreamsOf(n - 1) \cup {Append(ms, m) : ms \in StreamsOf(n - 1), m \in StreamMessages}

RECURSIVE WireOf(_)
WireOf(msgs) ==
    IF msgs = <<>> THEN <<>> ELSE Message_to_bytes(Head(msgs)) \o WireOf(Tail(msgs))

\* the top of the loop: build_msg on the buffer; Ok forwards the message and loops,
\* an error falls through to the read below
read_msgs_build ==
    /\ cpc = "build"
    /\ LET built == build_msg(cbuf)
       IN /\ cout' = built
          /\ IF built.res = "Ok"
             THEN /\ cfwd' = Append(cfwd, built.msg)
                  /\ cbuf' = built.data
                  /\ cpc' = "build"
             ELSE IF built.res = "panic"
             THEN /\ cpc' = "panicked"
                  /\ UNCHANGED <<cfwd, cbuf>>
             ELSE IF Len(cbuf) > 1024 * 1024 * 10
             THEN /\ cpc' = "error"        \* BufferReachedMaxSize
                  /\ UNCHANGED <<cfwd, cbuf>>
             ELSE /\ cpc' = "read"
                  /\ UNCHANGED <<cfwd, cbuf>>
    /\ UNCHANGED <<cmsg, cwire>>
    /\ UNCHANGED <<hvars, rvars, ovars, dvars, gvars, pvars>>

\* stream.read_buf: some of the bytes on the way arrive, one byte or all of them
read_msgs_read ==
    /\ cpc = "read"
    /\ cwire # <<>>
    /\ \E n \in {1, Len(cwire)} :
        /\ cbuf' = cbuf \o SubSeq(cwire, 1, n)
        /\ cwire' = SubSeq(cwire, n + 1, Len(cwire))
    /\ cpc' = "build"
    /\ UNCHANGED <<cmsg, cout, cfwd>>
    /\ UNCHANGED <<hvars, rvars, ovars, dvars, gvars, pvars>>

\* stream.read_buf returns 0: the peer closed the connection
read_msgs_eof ==
    /\ cpc = "read"
    /\ cwire = <<>>
    /\ cpc' = IF cbuf = <<>> THEN "closed" ELSE "error"    \* ConnectionResetByPeer
    /\ UNCHANGED <<cmsg, cbuf, cout, cwire, cfwd>>
    /\ UNCHANGED <<hvars, rvars, ovars, dvars, gvars, pvars>>

InitStream ==
    /\ cmsg \in StreamsOf(MaxStreamMsgs) \ {<<>>}
    /\ cwire = WireOf(cmsg)
    /\ cbuf = <<>>
    /\ cout = NoResult
    /\ cfwd = <<>>
    /\ cpc = "build"

InitSpecStream == InitHandler /\ InitStream /\ InitRouter /\ InitHost /\ InitDiscovery /\ InitQueryDataIdle
    /\ InitPool

NextStream == read_msgs_build \/ read_msgs_read \/ read_msgs_eof

SpecStream == InitSpecStream /\ [][NextStream]_vars

(***************************************************************************)
(* Properties.                                                             *)
(***************************************************************************)
\* every instance of every query, with the id and status of its query
InstancesOf(qs) ==
    Flatten([k \in 1..Len(qs) |->
        [n \in 1..Len(AllInstances(qs[k])) |->
            [id |-> AllInstances(qs[k])[n].id,
             status |-> AllInstances(qs[k])[n].status,
             operator |-> AllInstances(qs[k])[n].operator,
             query_id |-> qs[k].id,
             query_status |-> qs[k].status]]])

InstanceIds(qs) == {x.id : x \in SeqRange(InstancesOf(qs))}

StatusOf(qs, op_instance_id) ==
    (CHOOSE x \in SeqRange(InstancesOf(qs)) : x.id = op_instance_id).status

RunningOn(w) == SelectSeq(operator_instances[w], LAMBDA x : x.task = "running")

RECURSIVE SumMemory(_)
SumMemory(xs) ==
    IF xs = <<>> THEN 0 ELSE Head(xs).operator.compute.memory_in_mib + SumMemory(Tail(xs))

RECURSIVE SumCpu(_)
SumCpu(xs) ==
    IF xs = <<>> THEN 0
    ELSE Head(xs).operator.compute.cpu_in_thousandths + SumCpu(Tail(xs))

\* the operators of the Assign messages of a claim pass
Claimed == [n \in 1..Len(sent) |-> [operator |-> sent[n].body]]

\* C1: no instance id ever appears in two Assign messages, so an instance is
\* assigned to at most one worker
C1_AssignedAtMostOnce == \A i \in DOMAIN assigns : Len(assigns[i]) <= 1

\* C2: a query's stored status is Complete iff every one of its instances is
\* Complete, and Error iff at least one of its instances is Error
C2_QueryStatusMatchesInstances ==
    \A k \in 1..Len(queries) :
        LET ins == AllInstances(queries[k])
        IN /\ queries[k].status = Complete
                <=> \A n \in 1..Len(ins) : ins[n].status = Complete
           /\ queries[k].status.t = "Error"
                <=> \E n \in 1..Len(ins) : ins[n].status.t = "Error"

\* C3: on every worker the summed declared compute of the running instances
\* (one slot, memory, cpu each) never exceeds the worker's allowed compute
C3_RunningWithinAllowed ==
    \A w \in Workers :
        ~any_greater_than(
            Compute(Len(RunningOn(w)), SumMemory(RunningOn(w)), SumCpu(RunningOn(w))),
            allowed_compute(w))

\* C4: a claim pass for capacity C claims at most C.instances instances, and every
\* instance it claims has a declared memory and cpu that do not exceed what remained
\* of C when it was claimed (so the sums stay within C and an operator exceeding
\* what remains is skipped)
C4_ClaimWithinCapacity ==
    handled.kind = "NotificationResponse" =>
        /\ Len(sent) <= handled.body.instances
        /\ \A n \in 1..Len(sent) :
            /\ sent[n].kind = "Assign"
            /\ sent[n].body.compute.memory_in_mib
                <= handled.body.memory_in_mib - SumMemory(SubSeq(Claimed, 1, n - 1))
            /\ sent[n].body.compute.cpu_in_thousandths
                <= handled.body.cpu_in_thousandths - SumCpu(SubSeq(Claimed, 1, n - 1))

\* a pass that claimed one instance and skipped another for lack of capacity
C4_Witness ==
    /\ handled.kind = "NotificationResponse"
    /\ Len(sent) = 1
    /\ \E x \in SeqRange(InstancesOf(queries)) :
        /\ x.status = Queued
        /\ x.operator.compute.memory_in_mib
            > handled.body.memory_in_mib - SumMemory(Claimed)

\* the Queued instances a claim pass left behind in queries that are not terminal
LeftQueued ==
    SelectSeq(InstancesOf(queries),
              LAMBDA x : x.status = Queued /\ ~terminal(x.query_status))

\* C5: a claim pass claims as many queued instances as fit: capacity {2, 512, 200}
\* with two Queued instances of cost {256, 100} claims exactly two, and when a pass
\* ends no Queued instance of a non-terminal query fits the capacity left over
C5_ClaimsAllThatFit ==
    handled.kind = "NotificationResponse" =>
        /\ ( /\ handled.body = Compute(2, 512, 200)
             /\ Len(sent) + Len(LeftQueued) >= 2
             /\ \A x \in SeqRange(LeftQueued) \cup SeqRange(Claimed) :
                    /\ x.operator.compute.memory_in_mib = 256
                    /\ x.operator.compute.cpu_in_thousandths = 100 )
            => Len(sent) = 2
        /\ \A x \in SeqRange(LeftQueued) :
            ~ /\ handled.body.instances - Len(sent) >= 1
              /\ x.operator.compute.memory_in_mib
                    <= handled.body.memory_in_mib - SumMemory(Claimed)
              /\ x.operator.compute.cpu_in_thousandths
                    <= handled.body.cpu_in_thousandths - SumCpu(Claimed)

\* C6: AssignAcceptedResponse sets the instance Running and the query Running iff it
\* was Queued; AssignRejectedResponse{e} sets the instance and the query to Error(e);
\* an Assign arriving at the handler changes no status
C6_Step ==
    /\ handled'.kind = "AssignAcceptedResponse" =>
        /\ StatusOf(queries', handled'.op_instance_id) = Running
        /\ find_query(queries', handled'.query_id).status =
            IF find_query(queries, handled'.query_id).status = Queued THEN Running
            ELSE find_query(queries, handled'.query_id).status
    /\ handled'.kind = "AssignRejectedResponse" =>
        /\ StatusOf(queries', handled'.op_instance_id) = Error(handled'.body)
        /\ find_query(queries', handled'.query_id).status = Error(handled'.body)
    /\ handled'.kind = "Assign" => queries' = queries

C6_AssignmentResponses == [][C6_Step]_vars

\* an Accepted response handled for a query that was not Queued any more
C6_Witness ==
    /\ handled.kind = "AssignAcceptedResponse"
    /\ find_query(queries, handled.query_id).status.t = "Error"
    /\ StatusOf(queries, handled.op_instance_id) = Running

\* C7: an instance in SentShutdown only ever becomes Complete or Error
C7_Step ==
    \A i \in InstanceIds(queries) :
        StatusOf(queries, i) = SentShutdown =>
            StatusOf(queries', i).t \in {"SentShutdown", "Complete", "Error"}

C7_SentShutdownOnlyEnds == [][C7_Step]_vars

\* C8: after a successful RunQuery the new query is Queued and has, for every
\* operator of its plan, as many Queued instances with distinct ids as the operator
\* declares; the handler replies Created and then broadcasts one Notification
C8_RunQuerySeedsInstances ==
    (handled.kind = "RunQuery" /\ sent[1].kind = "RunQueryResp::Created") =>
        LET query == queries[Len(queries)]
            groups == query.operator_instances
            ins == AllInstances(query)
        IN /\ query.status = Queued
           /\ Len(groups) = Len(Flatten(query.physical_plan))
           /\ \A g \in 1..Len(groups) :
                Len(groups[g].instances) = groups[g].operator.compute.instances
           /\ \A n \in 1..Len(ins) : ins[n].status = Queued
           /\ \A n, m \in 1..Len(ins) : ins[n].id = ins[m].id => n = m
           /\ Len(sent) = 2
           /\ sent[1].query_id = query.id
           /\ sent[2].kind = "Notification"

\* C9: an instance whose task ended with an error is never reported or recorded as
\* Complete
C9_FailedNeverComplete ==
    \A i \in failed :
        /\ i \in InstanceIds(queries) => StatusOf(queries, i) # Complete
        /\ \A w \in Workers : \A n \in 1..Len(to_handler[w]) :
            ~ /\ to_handler[w][n].kind = "OperatorInstanceStatusChange"
              /\ to_handler[w][n].op_instance_id = i
              /\ to_handler[w][n].body.t = "Complete"

\* C10: decoding the bytes of an encoded message gives back the message: the same
\* msg_id, kind id, payload and optional ids, present-with-0 and absent kept apart
C10_RoundTrip ==
    cpc = "read" =>
        /\ cout.res = "Ok"
        /\ cout.msg = cmsg
        /\ cbuf = <<>>

\* a decoded message with an id present with value 0 and an absent id
C10_Witness ==
    /\ cpc = "read"
    /\ cmsg.sent_from_worker_id = Some(0)
    /\ cmsg.route_to_operation_id = None
    /\ cmsg.route_to_connection_id = Some(258)
    /\ cout.msg.sent_from_worker_id = Some(0)

\* the frame the reader's buffer begins with: the first one not yet decoded
NextFrame == Message_to_bytes(cmsg[Len(cfwd) + 1])

\* the reader's buffer is a proper prefix of a frame of a registered kind
HoldsProperPrefix ==
    /\ cpc = "build"
    /\ Len(cfwd) < Len(cmsg)
    /\ cmsg[Len(cfwd) + 1].msg_name_id \in RegisteredMsgIds
    /\ Len(cbuf) < Len(NextFrame)
    /\ cbuf = SubSeq(NextFrame, 1, Len(cbuf))

\* C11: on every proper prefix of an encoded frame decode returns Incomplete, does not
\* panic and leaves the buffer unchanged
C11_Step ==
    HoldsProperPrefix =>
        /\ cout'.res \in {"Incomplete", "IncompleteMessage"}
        /\ cbuf' = cbuf
        /\ cpc' = "read"

C11_PrefixIsIncomplete == [][C11_Step]_vars

\* C12: a complete frame followed by further bytes decodes to the message of that
\* frame, with exactly its data_len payload bytes, and only the frame's bytes leave the
\* buffer: the frames of a stream decode to the original messages in order
C12_FramesDecodeInOrder ==
    /\ \A k \in 1..Len(cfwd) : k <= Len(cmsg) /\ cfwd[k] = cmsg[k]
    /\ cout.res = "Ok" =>
        cbuf \o cwire
            = SubSeq(WireOf(cmsg), Len(WireOf(SubSeq(cmsg, 1, Len(cfwd)))) + 1,
                     Len(WireOf(cmsg)))

\* C13: a frame whose kind id is not in the registry ends the reader task with an
\* error: the reader does not wait for more bytes and forwards nothing of the frame
C13_UnknownKindEndsReader ==
    cout.res = "MessageIdNotInRegistry" =>
        /\ cpc = "error"
        /\ \A k \in 1..Len(cfwd) : cfwd[k].msg_name_id \in RegisteredMsgIds

\* C14: a message whose route_to_operation_id is X is held only by the internal
\* subscriber X: every message in a subscriber's channel that names an operation
\* names that subscriber, whatever the message's kind.
C14_OnlyAddressedSubscriber ==
    \A i \in SubscriberIds :
        \A k \in 1..Len(inbox[i]) :
            is_some(inbox[i][k].route_to_operation_id)
                => inbox[i][k].route_to_operation_id = Some(i)

\* C15: a message the router cannot deliver (no subscriber takes it, its target is
\* unknown, or no routing rule covers its kind) is dropped and the router loop keeps
\* running: handling a message that is not an Identify never ends the loop.
C15_Step ==
    (/\ router_up
     /\ connection_pipe # <<>>
     /\ Head(connection_pipe).kind # "Identify")
        => router_up'

C15_UndeliverableIsDropped == [][C15_Step]_vars

\* C16: two messages of the same stream that reach the same internal subscriber are
\* in its channel in the order in which they were read from the stream.
C16_StreamOrderKept ==
    \A i \in SubscriberIds :
        \A a, b \in 1..Len(inbox[i]) :
            (a < b /\ inbox[i][a].msg_id[1] = inbox[i][b].msg_id[1])
                => inbox[i][a].msg_id[2] < inbox[i][b].msg_id[2]

\* a subscriber holds two messages of one stream
C16_Witness ==
    \E i \in SubscriberIds :
        \E a, b \in 1..Len(inbox[i]) :
            /\ a < b
            /\ inbox[i][a].msg_id[1] = inbox[i][b].msg_id[1]
            /\ inbox[i][a].msg_id[2] < inbox[i][b].msg_id[2]

\* C17: once the router has handled an Identify of a worker or of a connection that
\* came over a stream, the external-subscriber table maps that identity to that
\* stream and an Identify with the local worker id has been sent back.
C17_IdentifyRegistersAndReplies ==
    routed.msg.kind = "Identify" =>
        /\ \E k \in 1..Len(external_subscribers) :
            /\ external_subscribers[k].id = routed.msg.identify.id
            /\ external_subscribers[k].stream_id = routed.msg.msg_id[1]
        /\ \E k \in 1..Len(pipe_back) :
            /\ pipe_back[k].kind = "Identify"
            /\ pipe_back[k].identify = Identify_Worker(self_worker_id)

\* C18: the external-subscriber table holds at most one entry per worker id and per
\* connection id: identifying again over another stream replaces the entry.
C18_OneSubscriberPerIdentity ==
    \A a, b \in 1..Len(external_subscribers) :
        (/\ external_subscribers[a].typ = external_subscribers[b].typ
         /\ external_subscribers[a].id = external_subscribers[b].id)
            => a = b

\* C19: every message that leaves through a pipe configured with an operation id
\* carries it, through send and through send_all: every message the query handler
\* sends, an Assign included, has sent_from_operation_id = the handler's operator id.
C19_SentCarriesOperatorId ==
    \A n \in 1..Len(sent) :
        sent[n].sent_from_operation_id = Some(QueryHandler_operator_id)

\* C20: a host that has taken a Ping addressed to its instance has sent a Pong routed
\* to the pinger, with sent_from_worker_id = the worker that hosts the instance.
C20_PingAnsweredWithPong ==
    (/\ host_handled.kind = "Ping::Ping"
     /\ host_handled.route_to_operation_id = Some(ProducerInstanceId))
        => \E k \in 1..Len(host_sent) :
            /\ host_sent[k].kind = "Ping::Pong"
            /\ host_sent[k].route_to_operation_id = host_handled.sent_from_operation_id
            /\ host_sent[k].route_to_worker_id = host_handled.sent_from_worker_id
            /\ host_sent[k].sent_from_worker_id = Some(self_worker_id)

\* the list attempts and the Ping attempts peer discovery has made
ListAttempts == SelectSeq(disc_log, LAMBDA e : e.req = "ListOperatorInstancesRequest")
PingAttempts == SelectSeq(disc_log, LAMBDA e : e.req = "Ping")

\* C21: a ListOperatorInstancesResponse with more than one instance id is fatal: once
\* the last response of the list step held several ids, the lookup has failed with the
\* multiple-instances error (and so sends no further request).
C21_MultipleIsFatal ==
    (/\ disc_log # <<>>
     /\ disc_log[Len(disc_log)].resp.kind = "ListOperatorInstancesResponse"
     /\ Len(disc_log[Len(disc_log)].resp.op_instance_ids) > 1)
        => /\ disc_pc = "Err"
           /\ disc_err = "ReceivedMultipleOperatorInstancesForTheExchange"

\* C22: peer discovery makes at most three list attempts and then at most three Ping
\* attempts, and it can always go on until it has returned; no Ping is sent before a
\* list attempt gave exactly one id; an attempt that succeeds ends its step; Ok is
\* returned only with both ids set, and an Err is the error of the last attempt.
C22_DiscoveryTerminates ==
    /\ Len(ListAttempts) <= num_retries + 1
    /\ Len(PingAttempts) <= num_retries + 1
    /\ disc_pc \in {"start", "list", "ping"} => ENABLED NextDiscovery
    /\ disc_log = ListAttempts \o PingAttempts
    /\ PingAttempts # <<>> =>
        /\ ListAttempts[Len(ListAttempts)].res.ok
        /\ Len(ListAttempts[Len(ListAttempts)].resp.op_instance_ids) = 1
    /\ \A k \in 1..Len(ListAttempts) : ListAttempts[k].res.ok => k = Len(ListAttempts)
    /\ \A k \in 1..Len(PingAttempts) : PingAttempts[k].res.ok => k = Len(PingAttempts)
    /\ (ListAttempts # <<>> /\ ListAttempts[Len(ListAttempts)].res.ok) => disc_pc # "list"
    /\ (PingAttempts # <<>> /\ PingAttempts[Len(PingAttempts)].res.ok) => disc_pc = "Ok"
    /\ disc_pc = "Ok" =>
        /\ exchange_operator_instance_id = Some(ListAttempts[Len(ListAttempts)].res.val)
        /\ exchange_worker_id = Some(PingAttempts[Len(PingAttempts)].res.val)
    /\ (disc_pc = "Err" /\ disc_log # <<>>) =>
        /\ ~disc_log[Len(disc_log)].res.ok
        /\ disc_err = disc_log[Len(disc_log)].res.err

\* the exchange is listed only on the second retry, and the lookup succeeds
C22_Witness ==
    /\ disc_pc = "Ok"
    /\ Len(ListAttempts) = 3
    /\ ListAttempts[1].resp.op_instance_ids = <<>>
    /\ ListAttempts[2].resp.op_instance_ids = <<>>
    /\ ListAttempts[1].resp.kind = "ListOperatorInstancesResponse"
    /\ Len(PingAttempts) = 3

\* the rows of the store in file, row group, row order
RECURSIVE RowsOfFile(_, _, _)
RowsOfFile(store, f, g) ==
    IF g >= Len(store[f + 1]) THEN <<>>
    ELSE RowGroupRows(f, g, store[f + 1][g + 1]) \o RowsOfFile(store, f, g + 1)

RECURSIVE RowsOfStore(_, _)
RowsOfStore(store, f) ==
    IF f >= Len(store) THEN <<>>
    ELSE RowsOfFile(store, f, 0) \o RowsOfStore(store, f + 1)

AllRows == RowsOfStore(qd_store, 0)

\* p is (f, g, r) or a later position
AtOrAfter(p, f, g, r) ==
    \/ p[1] > f
    \/ p[1] = f /\ p[2] > g
    \/ p[1] = f /\ p[2] = g /\ p[3] >= r

RowsFromRequest ==
    SelectSeq(AllRows, LAMBDA p : AtOrAfter(p, qd_req.file_idx, qd_req.file_row_group_idx,
                                            qd_req.row_idx))

\* C23: a forward request from (f, g, r) with limit L is answered with a Record whose
\* offsets are the first L row positions at or after (f, g, r), in ascending order
\* across row groups and files; with fewer than L rows there, all of them.
C23_ForwardPage ==
    (/\ qd_req.kind = "GetQueryData"
     /\ qd_req.forward
     /\ qd_req.limit >= 1
     /\ RowsFromRequest # <<>>)
        => /\ qd_resp.kind = "Record"
           /\ qd_resp.record_offsets =
                SubSeq(RowsFromRequest, 1, min(qd_req.limit, Len(RowsFromRequest)))

\* C24: a backward request {file_idx = MAX, row group = MAX, row = MAX, limit L} on a
\* result with at least L rows is answered with a Record of exactly L rows whose
\* offsets descend from the last row of the last row group of the last file.
C24_BackwardFromEnd ==
    (/\ qd_req.kind = "GetQueryData"
     /\ ~qd_req.forward
     /\ qd_req.file_idx = u64_MAX
     /\ qd_req.file_row_group_idx = u64_MAX
     /\ qd_req.row_idx = u64_MAX
     /\ qd_req.limit >= 1
     /\ Len(AllRows) >= qd_req.limit)
        => /\ qd_resp.kind = "Record"
           /\ Len(qd_resp.record) = qd_req.limit
           /\ qd_resp.record_offsets =
                SubSeq(ReverseSeq(AllRows), 1, qd_req.limit)

\* C25: a request whose first file does not exist is answered with ReachedEndOfFiles,
\* and one whose file exists but whose row group does not with RecordRowGroupNotFound.
C25_MissingFileOrRowGroup ==
    (qd_req.kind = "GetQueryData" /\ qd_req.limit >= 1) =>
        /\ (qd_req.file_idx # u64_MAX /\ qd_req.file_idx >= Len(qd_store))
                => qd_resp.kind = "ReachedEndOfFiles"
        /\ (/\ qd_req.file_idx < Len(qd_store)
            /\ qd_req.file_row_group_idx # u64_MAX
            /\ qd_req.file_row_group_idx >= Len(qd_store[qd_req.file_idx + 1]))
                => qd_resp.kind = "RecordRowGroupNotFound"

\* C26: a Record response has as many offsets as the batch has rows, the i-th offset
\* is the position of the i-th row of the batch, and the batch has at most limit rows.
C26_OffsetsMatchRows ==
    qd_resp.kind = "Record" =>
        /\ Len(qd_resp.record_offsets) = Len(qd_resp.record)
        /\ \A i \in 1..Len(qd_resp.record) : qd_resp.record_offsets[i] = qd_resp.record[i]
        /\ Len(qd_resp.record) <= qd_req.limit

\* a backward page of three rows that spans two row groups
C26_Witness ==
    /\ qd_resp.kind = "Record"
    /\ ~qd_req.forward
    /\ Len(qd_resp.record) = 3
    /\ qd_resp.record[1][2] # qd_resp.record[3][2]
    /\ qd_resp.record_offsets = qd_resp.record

\* C27: GetQueryStatus is a pure read: the step that handles it leaves the queries as
\* they are, answers Status(the query's status) for a known id and QueryNotFound for
\* an unknown one, and answers a repeated identical call with the same response.
C27_Step ==
    (handled' # handled \/ sent' # sent) /\ handled'.kind = "GetQueryStatus" =>
        /\ queries' = queries
        /\ Len(sent') = 1
        /\ IF \E k \in 1..Len(queries) : queries[k].id = handled'.query_id
           THEN /\ sent'[1].kind = "GetQueryStatusResp::Status"
                /\ \E k \in 1..Len(queries) :
                    /\ queries[k].id = handled'.query_id
                    /\ sent'[1].body = queries[k].status
           ELSE sent'[1].kind = "GetQueryStatusResp::QueryNotFound"

C27_Repeat ==
    (handled.kind = "GetQueryStatus" /\ handled' = handled) => sent' = sent

C27_GetQueryStatusIsPureRead == [][C27_Step /\ C27_Repeat]_vars

\* the status of a running query has been read
C27_Witness ==
    /\ handled.kind = "GetQueryStatus"
    /\ Len(sent) = 1
    /\ sent[1].kind = "GetQueryStatusResp::Status"
    /\ sent[1].body = Running

\* C28: over a query's whole life the "query finished" entry is logged once, however
\* many status changes are handled after the query became Complete or Error.
C28_FinishedLoggedOnce ==
    \A a, b \in 1..Len(log) : log[a].query_id = log[b].query_id => a = b

\* C29: after an OperatorInstanceStatusChange has been handled, no exchange instance
\* of the query is still Running while its exchange has no live inbound or outbound
\* producer instance; a Shutdown::Immediate sent in the step goes to an instance that
\* was Running and is in SentShutdown afterwards.
C29_Step ==
    (handled' # handled \/ sent' # sent) /\ handled'.kind = "OperatorInstanceStatusChange" =>
        LET before == AllInstances(find_query(queries, handled'.query_id))
            query == find_query(queries', handled'.query_id)
            after == AllInstances(query)
        IN /\ \A k \in 1..Len(after) :
                (/\ after[k].operator.typ = "exchange"
                 /\ after[k].operator.id \in get_exchange_ids_without_any_consumers(query))
                    => after[k].status # Running
           /\ \A n \in 1..Len(sent') :
                sent'[n].kind = "Shutdown::Immediate" =>
                    \E k \in 1..Len(after) :
                        /\ after[k].id = sent'[n].op_instance_id
                        /\ before[k].status = Running
                        /\ after[k].status = SentShutdown

C29_ShutdownOfDrainedExchanges == [][C29_Step]_vars

\* C30: handling a status change of an instance of operator X sends
\* OperatorStatusChange::Completed{X}, once to every instance of X's outbound exchange,
\* exactly when X is a producer and the change leaves every instance of X Complete.
CompletedSent == SelectSeq(sent, LAMBDA m : m.kind = "OperatorStatusChange::Completed")

Handles(w, msg) ==
    /\ to_handler[w] # <<>>
    /\ msg = Head(to_handler[w])
    /\ to_handler'[w] = Tail(to_handler[w])
    /\ handled' = msg

\* the ids of msg name no instance of a query of the state
NamesNoInstance(msg) ==
    \/ QueryIdx(queries, msg.query_id) = {}
    \/ ~HasInstance(find_query(queries, msg.query_id), msg.op_instance_id)

\* C31: for every OperatorInstanceStatusChange the handler takes, the first message it
\* sends is GenericResponse::Ok to the sender, and it is sent as well when the query id
\* or the instance id is unknown and the state update fails.
C31_Step ==
    \A w \in Workers :
        (/\ to_handler[w] # <<>>
         /\ Head(to_handler[w]).kind = "OperatorInstanceStatusChange"
         /\ Handles(w, Head(to_handler[w])))
            => /\ sent' # <<>>
               /\ sent'[1].kind = "GenericResponse::Ok"
               /\ sent'[1].query_id = Head(to_handler[w]).query_id
               /\ sent'[1].op_instance_id = Head(to_handler[w]).op_instance_id
               /\ sent'[1].sent_from_operation_id = Some(QueryHandler_operator_id)
               /\ NamesNoInstance(Head(to_handler[w])) =>
                    /\ Len(sent') = 1
                    /\ queries' = queries

C31_ReplyBeforeUpdate == [][C31_Step]_vars

\* a status change with an unknown instance of a known query was answered
C31_Witness ==
    /\ handled.kind = "OperatorInstanceStatusChange"
    /\ handled.op_instance_id = UnknownInstanceId
    /\ QueryIdx(queries, handled.query_id) # {}
    /\ Len(sent) = 1
    /\ sent[1].kind = "GenericResponse::Ok"

\* C38: an instance status that is Complete or Error is the same after every step,
\* whichever message the handler takes.
C38_Step ==
    \A k \in 1..Len(queries) :
        \A n \in 1..Len(AllInstances(queries[k])) :
            terminal(AllInstances(queries[k])[n].status) =>
                AllInstances(queries'[k])[n].status = AllInstances(queries[k])[n].status

C38_TerminalInstanceStatusIsFinal == [][C38_Step]_vars

\* C40: a message whose handling fails with a QueryHandlerStateError leaves the handler
\* running and the handler state (queries, instance statuses, log) as it was.
C40_Step ==
    \A w \in Workers :
        (/\ to_handler[w] # <<>>
         /\ Head(to_handler[w]).kind \in {"AssignAcceptedResponse", "AssignRejectedResponse",
                                          "OperatorInstanceStatusChange"}
         /\ NamesNoInstance(Head(to_handler[w]))
         /\ Handles(w, Head(to_handler[w])))
            => /\ queries' = queries
               /\ log' = log
               /\ handler_up'

C40_StateErrorLeavesStateAlone == [][C40_Step]_vars


\* C36: for the instances a worker hosts, total_operator_compute() is {the number of
\* hosted instances, the sum of their declared memory, the sum of their declared cpu}.
C36_TotalIsTheSum ==
    \A w \in Workers :
        total_operator_compute(operator_instances[w]) =
            Compute(Len(operator_instances[w]), SumMemory(operator_instances[w]),
                    SumCpu(operator_instances[w]))


\* C37: every GetQueryData request is answered: get_record_data returns a result for
\* every position, limit and direction, on every store; it neither stays in its loop
\* nor panics.
C37_GetRecordDataReturns ==
    qd_req.kind = "GetQueryData" =>
        qd_resp.kind \in {"Record", "RecordRowGroupNotFound", "ReachedEndOfFiles", "Error"}


\* C32: after the host has returned, the router holds no internal subscriber for the
\* host's operator instance.
C32_NoSubscriberAfterReturn ==
    host_pc \in {"Ok", "TimedOutWaitingForTaskToClose"} =>
        \A k \in 1..Len(internal_subscribers) :
            internal_subscribers[k] # ProducerOperatorSubscriber

\* C33: the pool's wait for its readers never ends with the timeout error: after the
\* token is cancelled every reader stops, a reader in read_buf on an open socket too.
C33_PoolShutdownWithoutTimeout ==
    pool_pc # "TimedOutWaitingForConnectionsToClose"

\* the host takes msg from its router pipe in this step
HostTakes(kind) ==
    /\ host_n' = host_n + 1
    /\ host_handled' # NoHostMessage
    /\ host_handled'.kind = kind

\* C34: a GetNextRecord response NoneLeft that the host takes from its router pipe
\* passes the task's predicate and is forwarded to the task.
C34_Step ==
    HostTakes("GetNextRecordResponseNoneLeft") =>
        task_inbox' = Append(task_inbox, host_handled')

C34_NoneLeftReachesTheTask == [][C34_Step]_vars

\* C35: a Pong that the host takes from its router pipe is forwarded to the task and
\* the host sends nothing for it; only a Ping is answered by the host.
C35_Step ==
    HostTakes("Ping::Pong") =>
        /\ task_inbox' = Append(task_inbox, host_handled')
        /\ host_sent' = <<>>

C35_PongReachesTheTask == [][C35_Step]_vars


\* nothing is on its way between the query handler and the workers
NothingInFlight == \A w \in Workers : to_handler[w] = <<>> /\ to_worker[w] = <<>>

\* no task failed, no Assign was rejected, no query or instance is in Error
NoFailure ==
    /\ handler_up
    /\ failed = {}
    /\ \A x \in SeqRange(InstancesOf(queries)) :
        x.status.t # "Error" /\ x.query_status.t # "Error"

\* C39: a Queued instance of a non-terminal query is claimed later: without failures
\* there is no state in which such an instance is Queued, the workers have finished
\* every instance of the query they hosted, a worker has the capacity for the Queued
\* instance free, and no message is in flight that could start another claim pass.
C39_NoQueuedInstanceIsStranded ==
    ~ ( /\ NoFailure
        /\ NothingInFlight
        /\ \A w \in Workers : \A x \in SeqRange(RunningOn(w)) : x.query_id = ForeignQuery
        /\ \E x \in SeqRange(LeftQueued) : \E w \in Workers :
                /\ AssignFits(w, x.operator)
                /\ ~any_depleated(subtract_single_operator_compute(
                        RemainingCompute(w), x.operator.compute)) )

====
